---- MODULE Spec2Model ----
(***************************************************************************)
(* A model of the FatSecret adapter of NutriSnap:                          *)
(*   functions/src/utils/fatSecretAPI.js   (token, search, detail,         *)
(*                                          autocomplete, normalizer,      *)
(*                                          orchestrator)                  *)
(*   the callable endpoints built on it    (searchFatSecretNutrition,      *)
(*                                          getFatSecretFoodDetails,       *)
(*                                          getAutocompleteSuggestions)    *)
(* and of the TTL cache of ./apiUtils, whose code is not among the source  *)
(* files and is modelled from the specification's description of it.       *)
(*                                                                         *)
(* Every async function is cut at its awaits: one action per resumption.   *)
(* A call runs synchronously up to the first await that really suspends    *)
(* (an HTTP request or a callee that suspended), as JavaScript does.       *)
(* The awaits of fetch() and of the body (json()/text()) that follows it   *)
(* are one suspension: nothing shared is touched between them.             *)
(***************************************************************************)
EXTENDS Integers, Sequences, FiniteSets

(***************************************************************************)
(* JavaScript values.  Every value is a record with a tag t, so that any   *)
(* two values can be compared.                                              *)
(* A string is a sequence of one-character strings.  A number is a decimal *)
(* int.frac (frac: the digits after the point, no trailing zero).          *)
(***************************************************************************)
Undef == [t |-> "undefined"]
Null == [t |-> "null"]
NaN == [t |-> "NaN"]
Str(s) == [t |-> "string", s |-> s]
Dec(i, f) == [t |-> "number", int |-> i, frac |-> f]
Num(n) == Dec(n, <<>>)
Arr(xs) == [t |-> "array", xs |-> xs]
Obj(f) == [t |-> "object", f |-> f]
Bool(b) == [t |-> "boolean", b |-> b]
\* An Error: message is its text; an HttpsError also has a code and details.
Err(name, msg) == [t |-> "error", name |-> name, code |-> "", msg |-> msg, details |-> ""]
HttpsError(code, msg, details) ==
  [t |-> "error", name |-> "HttpsError", code |-> code, msg |-> msg, details |-> details]

\* ToBoolean: what `if (v)`, `!v` and `v || d` test.
Truthy(v) ==
  CASE v.t = "undefined" -> FALSE
    [] v.t = "null" -> FALSE
    [] v.t = "NaN" -> FALSE
    [] v.t = "boolean" -> v.b
    [] v.t = "string" -> Len(v.s) > 0
    [] v.t = "number" -> v.int # 0 \/ Len(v.frac) > 0
    [] OTHER -> TRUE

\* v || d
OrElse(v, d) == IF Truthy(v) THEN v ELSE d

\* Reading a property of undefined or null throws a TypeError.
CanRead(v) == v.t \notin {"undefined", "null"}

\* v.name, for a v that CanRead: a missing property reads as undefined.
Get(v, name) ==
  IF v.t = "object" /\ name \in DOMAIN v.f THEN v.f[name] ELSE Undef

IsArray(v) == v.t = "array"
IsString(v) == v.t = "string"

\* xs[0] of an array: undefined when the array is empty.
First(v) == IF Len(v.xs) > 0 THEN v.xs[1] ELSE Undef

TypeError == Err("TypeError", "not readable")

(***************************************************************************)
(* Strings: toLowerCase, trim, number to string, template literals.        *)
(***************************************************************************)
WhiteSpace == {" "}

LowerChar(c) == CASE c = "A" -> "a" [] c = "B" -> "b" [] c = "U" -> "u" [] c = "S" -> "s" [] OTHER -> c

toLowerCase(s) == [i \in 1..Len(s) |-> LowerChar(s[i])]

RECURSIVE trimStart(_)
trimStart(s) ==
  IF Len(s) > 0 /\ s[1] \in WhiteSpace THEN trimStart(Tail(s)) ELSE s

RECURSIVE trimEnd(_)
trimEnd(s) ==
  IF Len(s) > 0 /\ s[Len(s)] \in WhiteSpace
  THEN trimEnd(SubSeq(s, 1, Len(s) - 1))
  ELSE s

trim(s) == trimEnd(trimStart(s))

Digit(d) ==
  CASE d = 0 -> "0" [] d = 1 -> "1" [] d = 2 -> "2" [] d = 3 -> "3" [] d = 4 -> "4"
    [] d = 5 -> "5" [] d = 6 -> "6" [] d = 7 -> "7" [] d = 8 -> "8" [] d = 9 -> "9"

RECURSIVE NatToString(_)
NatToString(n) ==
  IF n < 10 THEN <<Digit(n)>> ELSE NatToString(n \div 10) \o <<Digit(n % 10)>>

\* String(v), as a template literal `${v}` and Number.prototype.toString give it.
ToStr(v) ==
  CASE v.t = "string" -> v.s
    [] v.t = "undefined" -> <<"u", "n", "d", "e", "f", "i", "n", "e", "d">>
    [] v.t = "null" -> <<"n", "u", "l", "l">>
    [] v.t = "NaN" -> <<"N", "a", "N">>
    [] v.t = "number" ->
         (IF v.int < 0 THEN <<"-">> \o NatToString(0 - v.int) ELSE NatToString(v.int))
           \o (IF Len(v.frac) > 0 THEN <<".">> \o v.frac ELSE <<>>)
    [] OTHER -> <<"[", "o", "b", "j", "e", "c", "t", "]">>

(***************************************************************************)
(* The clock and the environment.                                          *)
(***************************************************************************)
VARIABLES
  now,      \* Date.now(), in milliseconds
  env,      \* process.env: which of the two credentials are set
  cache,    \* the store of apiUtils: key -> [v, expiresAt, storedAt]
  procs,    \* per caller: the call in progress (its stack of frames, what it did)
  ncalls    \* calls started so far

vars == <<now, env, cache, procs, ncalls>>

\* Calls one behaviour starts.
MaxCalls == 2

Procs == {1, 2}

\* The single caller of the sequential specifications.
SeqProcs == {1}

(***************************************************************************)
(* The TTL cache of ./apiUtils (getCachedResponse, cacheResponse).  Its    *)
(* code is not in the source files: it is the key-value store the          *)
(* specification describes: get(key) returns the value or a miss, a read   *)
(* after expiresAt is a miss, put(key, value, ttlSeconds) stores with the  *)
(* expiry.  storedAt is the time of the put, kept to state properties.     *)
(***************************************************************************)
MsPerSecond == 1000

Fresh(c, key) == key \in DOMAIN c /\ now < c[key].expiresAt

getCachedResponse(c, key) == IF Fresh(c, key) THEN c[key].v ELSE Undef

cacheResponse(c, key, value, ttlSeconds) ==
  [k \in DOMAIN c \cup {key} |->
    IF k = key
    THEN [v |-> value, expiresAt |-> now + ttlSeconds * MsPerSecond, storedAt |-> now]
    ELSE c[k]]

(***************************************************************************)
(* A call in progress: w = [cache, stack, reqs, resps, reads, writes, fns,  *)
(* errors].                                                                *)
(* stack: the frames of the async functions, the innermost last; a frame   *)
(* is [fn, pc, loc, out]: pc names the await it is suspended at, or        *)
(* "done", and then out is how it ended (Ret(v) or Thr(e)).                *)
(* reqs: the HTTP requests issued, in order, and resps: the answers        *)
(* received; reads, writes: the cache keys read and written; fns: the      *)
(* functions of the utility entered; errors: who called logger.error, and   *)
(* with what.                                                              *)
(***************************************************************************)
Ret(v) == [k |-> "return", v |-> v]
Thr(e) == [k |-> "throw", v |-> e]
NoOut == [k |-> "none", v |-> Undef]

Frame(fn, pc, loc) == [fn |-> fn, pc |-> pc, loc |-> loc, out |-> NoOut]
Done(fn, loc, out) == [fn |-> fn, pc |-> "done", loc |-> loc, out |-> out]

Idle == [stack |-> <<>>, reqs |-> <<>>, resps |-> <<>>, reads |-> {}, writes |-> {},
         fns |-> {}, errors |-> {}]

Top(w) == w.stack[Len(w.stack)]
Pop(w) == [w EXCEPT !.stack = SubSeq(@, 1, Len(@) - 1)]
Push(w, f) == [w EXCEPT !.stack = Append(@, f)]
Enter(w, fn) == [w EXCEPT !.fns = @ \cup {fn}]

\* apiUtils.getCachedResponse(key), noted in the call's reads.
Read(w, key) == [w EXCEPT !.reads = @ \cup {key}]

\* apiUtils.cacheResponse(key, value, ttl), noted in the call's writes.
Write(w, key, value, ttl) ==
  [w EXCEPT !.cache = cacheResponse(@, key, value, ttl), !.writes = @ \cup {key}]

\* fetch(url, ...): the request leaves.
Fetch(w, req) == [w EXCEPT !.reqs = Append(@, req)]

\* The answer to the request arrives.
Receive(w, resp) == [w EXCEPT !.resps = Append(@, resp)]

\* logger.error(message, ...)
LogError(w, fn, message) == [w EXCEPT !.errors = @ \cup {<<fn, message>>}]

World(p) == [cache |-> cache, stack |-> procs[p].stack, reqs |-> procs[p].reqs,
             resps |-> procs[p].resps, reads |-> procs[p].reads,
             writes |-> procs[p].writes, fns |-> procs[p].fns, errors |-> procs[p].errors]

\* The step of caller p that leaves the world w.
Becomes(p, w) ==
  /\ cache' = w.cache
  /\ procs' = [procs EXCEPT ![p] = [stack |-> w.stack, reqs |-> w.reqs, resps |-> w.resps,
                                    reads |-> w.reads, writes |-> w.writes, fns |-> w.fns,
                                    errors |-> w.errors]]
  /\ UNCHANGED <<now, env>>

IsIdle(p) == procs[p].stack = <<>>

\* p is suspended in fn at pc, nothing above it.
At(p, fn, pc) ==
  /\ Len(procs[p].stack) > 0
  /\ procs[p].stack[Len(procs[p].stack)].fn = fn
  /\ procs[p].stack[Len(procs[p].stack)].pc = pc

\* The callee on top of p's stack has ended and its caller fn waits for it at pc.
Returned(p, fn, pc) ==
  /\ Len(procs[p].stack) > 1
  /\ procs[p].stack[Len(procs[p].stack)].pc = "done"
  /\ procs[p].stack[Len(procs[p].stack) - 1].fn = fn
  /\ procs[p].stack[Len(procs[p].stack) - 1].pc = pc

\* The frame of fn ends with out (replacing the suspended frame on top).
Finish(w, out) ==
  [w EXCEPT !.stack[Len(w.stack)] = Done(Top(w).fn, Top(w).loc, out)]

\* The frame on top moves to the await pc.
Suspend(w, pc) == [w EXCEPT !.stack[Len(w.stack)].pc = pc]

(***************************************************************************)
(* What the upstream service may answer.  A fetch either rejects (network  *)
(* error), or resolves with a non-success status, or resolves with success *)
(* and a JSON body.                                                        *)
(***************************************************************************)
Rejected == [kind |-> "reject", ok |-> FALSE, status |-> 0, json |-> Undef]
HttpError(status) == [kind |-> "http", ok |-> FALSE, status |-> status, json |-> Undef]
HttpOk(json) == [kind |-> "http", ok |-> TRUE, status |-> 200, json |-> json]

Failures == {Rejected, HttpError(500)}

\* The grants the token endpoint may give: a token that lasts less than the
\* safety margin, and one that lasts the usual hour.
Grants ==
  {[access_token |-> Str(<<"t", "1">>), expires_in |-> Num(30)],
   [access_token |-> Str(<<"t", "2">>), expires_in |-> Num(3600)]}

TokenResponses == Failures \cup {HttpOk(Obj(g)) : g \in Grants}

(***************************************************************************)
(* getAccessToken                                                          *)
(***************************************************************************)
FATSECRET_ == <<"f", "a", "t", "s", "e", "c", "r", "e", "t", "_">>

TOKEN_CACHE_KEY == FATSECRET_ \o <<"t", "o", "k", "e", "n">>

SafetyMarginMs == 60000

TokenRequest == [url |-> "FATSECRET_TOKEN_URL", method |-> "client_credentials"]

\* cachedToken && cachedToken.expires_at > Date.now()
TokenUsable(cachedToken) ==
  /\ Truthy(cachedToken)
  /\ Get(cachedToken, "expires_at").t = "number"
  /\ Get(cachedToken, "expires_at").int > now

\* expires_at without the safety margin.
ExpiresAt_NoMargin(expires_in) == now + (expires_in * MsPerSecond)

\* expires_at of a grant obtained now.
ExpiresAt(expires_in) == now + (expires_in * MsPerSecond) - SafetyMarginMs

\* getAccessToken(), up to its first await or its end.
getAccessToken_Unconfigured(w0) ==
  LET w == Read(Enter(w0, "getAccessToken"), TOKEN_CACHE_KEY)
      cachedToken == getCachedResponse(w.cache, TOKEN_CACHE_KEY)
  IN  IF TokenUsable(cachedToken)
      THEN Push(w, Done("getAccessToken", Undef, Ret(Get(cachedToken, "access_token"))))
      ELSE Push(Fetch(w, TokenRequest), Frame("getAccessToken", "fetch", Undef))

getAccessToken(w0) ==
  LET w == Read(Enter(w0, "getAccessToken"), TOKEN_CACHE_KEY)
      cachedToken == getCachedResponse(w.cache, TOKEN_CACHE_KEY)
  IN  IF TokenUsable(cachedToken)
      THEN Push(w, Done("getAccessToken", Undef, Ret(Get(cachedToken, "access_token"))))
      ELSE IF ~env.clientId \/ ~env.clientSecret
      THEN Push(LogError(LogError(w, "getAccessToken",
                                  "FatSecret API credentials not configured"),
                         "getAccessToken", "Error getting FatSecret access token"),
                Done("getAccessToken", Undef,
                     Thr(Err("Error", "FatSecret API credentials not configured"))))
      ELSE Push(Fetch(w, TokenRequest), Frame("getAccessToken", "fetch", Undef))

\* getAccessToken resumed with the token endpoint's answer.
getAccessToken_response(w0, resp) ==
  LET w == Receive(w0, resp)
      caught == LogError(w, "getAccessToken", "Error getting FatSecret access token")
  IN
  IF resp.kind = "reject" THEN Finish(caught, Thr(Err("FetchError", "network")))
  ELSE IF ~resp.ok
  THEN Finish(LogError(caught, "getAccessToken", "FatSecret token request failed"),
              Thr(Err("Error", "Failed to get FatSecret token")))
  ELSE IF ~CanRead(resp.json) THEN Finish(caught, Thr(TypeError))
  ELSE
    LET tokenData == resp.json
        expires_in == Get(tokenData, "expires_in")
        tokenWithExpiry ==
          Obj([access_token |-> Get(tokenData, "access_token"),
               expires_in |-> expires_in,
               expires_at |-> Num(ExpiresAt(expires_in.int))])
    IN  Finish(Write(w, TOKEN_CACHE_KEY, tokenWithExpiry, expires_in.int),
               Ret(Get(tokenData, "access_token")))

(***************************************************************************)
(* searchFoods                                                             *)
(***************************************************************************)
SearchKeyPrefix == FATSECRET_ \o <<"s", "e", "a", "r", "c", "h", "_">>

\* The key of the query as it was typed.
SearchKey_AsTyped(query) == SearchKeyPrefix \o query.s

\* `fatsecret_search_${query.toLowerCase().trim()}`
SearchKey(query) == SearchKeyPrefix \o trim(toLowerCase(query.s))

SearchTtl == 86400

DefaultSearchMax == 3

\* A default parameter value takes the place of an undefined argument.
Default(arg, d) == IF arg.t = "undefined" THEN d ELSE arg

EmptyList == Arr(<<>>)

SearchRequest(accessToken, query, maxResults) ==
  [url |-> "FATSECRET_API_URL", method |-> "foods.search",
   authorization |-> ToStr(accessToken),
   search_expression |-> ToStr(query), max_results |-> ToStr(maxResults)]

\* A single object passed on as it is, not as a list of one.
Envelope_Unwrapped(json, outer, inner) ==
  IF ~Truthy(Get(json, outer)) \/ ~Truthy(Get(Get(json, outer), inner))
  THEN Undef
  ELSE Get(Get(json, outer), inner)

\* The repeated field of a response envelope as a list: absent -> nothing
\* (Undef), a single object -> [object], a list -> the list.
Envelope(json, outer, inner) ==
  IF ~Truthy(Get(json, outer)) \/ ~Truthy(Get(Get(json, outer), inner))
  THEN Undef
  ELSE IF IsArray(Get(Get(json, outer), inner))
       THEN Get(Get(json, outer), inner)
       ELSE Arr(<<Get(Get(json, outer), inner)>>)

\* searchFoods(query, maxResults = 3), up to its first await or its end.
\* The stored list is cut to the limit of the call it is served to.
searchFoods_CutToLimit(w0, query, maxResultsArg) ==
  LET w == Enter(w0, "searchFoods")
      loc == [query |-> query, maxResults |-> Default(maxResultsArg, Num(DefaultSearchMax))]
  IN  IF ~IsString(query)
      THEN Push(LogError(w, "searchFoods", "Error searching FatSecret"),
                Done("searchFoods", loc, Ret(EmptyList)))
      ELSE LET cacheKey == SearchKey(query)
               w1 == Read(w, cacheKey)
               cachedResults == getCachedResponse(w.cache, cacheKey)
               n == IF Len(cachedResults.xs) < loc.maxResults.int
                    THEN Len(cachedResults.xs) ELSE loc.maxResults.int
           IN  IF Truthy(cachedResults)
               THEN Push(w1, Done("searchFoods", loc,
                                  Ret(Arr(SubSeq(cachedResults.xs, 1, n)))))
               ELSE getAccessToken(Push(w1, Frame("searchFoods", "token", loc)))

searchFoods(w0, query, maxResultsArg) ==
  LET w == Enter(w0, "searchFoods")
      loc == [query |-> query, maxResults |-> Default(maxResultsArg, Num(DefaultSearchMax))]
  IN  IF ~IsString(query)
      THEN Push(LogError(w, "searchFoods",
                         "Error searching FatSecret"),  \* TypeError, caught
                Done("searchFoods", loc, Ret(EmptyList)))
      ELSE LET cacheKey == SearchKey(query)
               w1 == Read(w, cacheKey)
               cachedResults == getCachedResponse(w.cache, cacheKey)
           IN  IF Truthy(cachedResults)
               THEN Push(w1, Done("searchFoods", loc, Ret(cachedResults)))
               ELSE getAccessToken(Push(w1, Frame("searchFoods", "token", loc)))

\* The catch block rethrowing what getAccessToken threw.
searchFoods_token_Rethrows(w, out) ==
  IF out.k = "throw"
  THEN Finish(LogError(w, "searchFoods", "Error searching FatSecret"), Thr(out.v))
  ELSE Suspend(Fetch(w, SearchRequest(out.v, Top(w).loc.query, Top(w).loc.maxResults)),
               "fetch")

\* searchFoods resumed with the outcome of getAccessToken().
searchFoods_token(w, out) ==
  IF out.k = "throw"
  THEN Finish(LogError(w, "searchFoods", "Error searching FatSecret"), Ret(EmptyList))
  ELSE Suspend(Fetch(w, SearchRequest(out.v, Top(w).loc.query, Top(w).loc.maxResults)),
               "fetch")

\* searchFoods resumed with the search endpoint's answer.
\* The list another call stored in the meantime is returned, and kept.
searchFoods_response_KeepsFirst(w0, resp) ==
  LET w == Receive(w0, resp)
      caught == LogError(w, "searchFoods", "Error searching FatSecret")
      stored == getCachedResponse(w.cache, SearchKey(Top(w).loc.query))
  IN
  IF resp.kind = "reject" THEN Finish(caught, Ret(EmptyList))
  ELSE IF ~resp.ok
  THEN Finish(LogError(caught, "searchFoods", "FatSecret search request failed"),
              Ret(EmptyList))
  ELSE IF ~CanRead(resp.json) THEN Finish(caught, Ret(EmptyList))
  ELSE LET foods == Envelope(resp.json, "foods", "food")
       IN  IF foods = Undef
           THEN Finish(w, Ret(EmptyList))
           ELSE IF Truthy(stored) THEN Finish(w, Ret(stored))
           ELSE Finish(Write(w, SearchKey(Top(w).loc.query), foods, SearchTtl), Ret(foods))

searchFoods_response(w0, resp) ==
  LET w == Receive(w0, resp)
      caught == LogError(w, "searchFoods", "Error searching FatSecret")
  IN
  IF resp.kind = "reject" THEN Finish(caught, Ret(EmptyList))
  ELSE IF ~resp.ok
  THEN Finish(LogError(caught, "searchFoods", "FatSecret search request failed"),
              Ret(EmptyList))
  ELSE IF ~CanRead(resp.json) THEN Finish(caught, Ret(EmptyList))  \* TypeError, caught
  ELSE LET foods == Envelope(resp.json, "foods", "food")
       IN  IF foods = Undef
           THEN Finish(w, Ret(EmptyList))
           ELSE Finish(Write(w, SearchKey(Top(w).loc.query), foods, SearchTtl), Ret(foods))

(***************************************************************************)
(* getFoodDetails                                                          *)
(***************************************************************************)
FoodKeyPrefix == FATSECRET_ \o <<"f", "o", "o", "d", "_">>

\* The key of a detail filed with the searches.
FoodKey_AmongSearches(foodId) == SearchKeyPrefix \o ToStr(foodId)

\* `fatsecret_food_${foodId}`
FoodKey(foodId) == FoodKeyPrefix \o ToStr(foodId)

FoodTtl == 604800

DetailsRequest(accessToken, foodId) ==
  [url |-> "FATSECRET_API_URL", method |-> "food.get.v2",
   authorization |-> ToStr(accessToken), food_id |-> ToStr(foodId)]

\* getFoodDetails(foodId), up to its first await or its end.
getFoodDetails(w0, foodId) ==
  LET w == Read(Enter(w0, "getFoodDetails"), FoodKey(foodId))
      loc == [foodId |-> foodId]
      cachedResults == getCachedResponse(w.cache, FoodKey(foodId))
  IN  IF Truthy(cachedResults)
      THEN Push(w, Done("getFoodDetails", loc, Ret(cachedResults)))
      ELSE getAccessToken(Push(w, Frame("getFoodDetails", "token", loc)))

\* getFoodDetails resumed with the outcome of getAccessToken().
getFoodDetails_token(w, out) ==
  IF out.k = "throw"
  THEN Finish(LogError(w, "getFoodDetails",
                       "Error getting FatSecret food details"), Thr(out.v))
  ELSE Suspend(Fetch(w, DetailsRequest(out.v, Top(w).loc.foodId)), "fetch")

\* A refused detail request answered with no value instead of an error.
getFoodDetails_response_FailOpen(w0, resp) ==
  LET w == Receive(w0, resp)
      caught == LogError(w, "getFoodDetails", "Error getting FatSecret food details")
  IN
  IF resp.kind = "reject" \/ ~resp.ok \/ ~CanRead(resp.json)
  THEN Finish(caught, Ret(Undef))
  ELSE Finish(Write(w, FoodKey(Top(w).loc.foodId), Get(resp.json, "food"), FoodTtl),
              Ret(Get(resp.json, "food")))

\* getFoodDetails resumed with the detail endpoint's answer.
getFoodDetails_response(w0, resp) ==
  LET w == Receive(w0, resp)
      caught == LogError(w, "getFoodDetails", "Error getting FatSecret food details")
  IN
  IF resp.kind = "reject" THEN Finish(caught, Thr(Err("FetchError", "network")))
  ELSE IF ~resp.ok
  THEN Finish(LogError(caught, "getFoodDetails", "FatSecret food details request failed"),
              Thr(Err("Error", "Failed to get FatSecret food details")))
  ELSE IF ~CanRead(resp.json) THEN Finish(caught, Thr(TypeError))
  ELSE Finish(Write(w, FoodKey(Top(w).loc.foodId), Get(resp.json, "food"), FoodTtl),
              Ret(Get(resp.json, "food")))

(***************************************************************************)
(* autocompleteSearch                                                      *)
(***************************************************************************)
AutocompleteKeyPrefix ==
  FATSECRET_ \o <<"a", "u", "t", "o", "c", "o", "m", "p", "l", "e", "t", "e", "_">>

\* `fatsecret_autocomplete_${expression.toLowerCase().trim()}_${maxResults}_${region || 'default'}`
AutocompleteKey(expression, maxResults, region) ==
  AutocompleteKeyPrefix \o trim(toLowerCase(expression.s)) \o <<"_">> \o ToStr(maxResults)
    \o <<"_">> \o ToStr(OrElse(region, Str(<<"d", "e", "f", "a", "u", "l", "t">>)))

AutocompleteTtl == 900

DefaultAutocompleteMax == 4

AutocompleteLimit == 10

MinExpressionLength == 2

\* The limit passed on as it was given.
MathMin_Unclamped(v, n) == v

\* Math.min(maxResults, 10), of a number.
MathMin(v, n) == IF v.t # "number" THEN NaN ELSE IF v.int < n THEN v ELSE Num(n)

\* params of the autocomplete request: region only when one is given.
AutocompleteRequest(accessToken, expression, maxResults, region) ==
  [url |-> "FATSECRET_API_URL", method |-> "foods.autocomplete.v2",
   authorization |-> ToStr(accessToken),
   expression |-> trim(expression.s),
   max_results |-> ToStr(MathMin(maxResults, AutocompleteLimit)),
   region |-> IF Truthy(region) THEN region ELSE Undef]

\* The length of the expression as typed, blanks included.
TooShort_Untrimmed(expression) == Len(expression.s) < MinExpressionLength

\* expression.trim().length < 2
TooShort(expression) == Len(trim(expression.s)) < MinExpressionLength

\* autocompleteSearch(expression, maxResults = 4, region = null), up to its
\* first await or its end.
autocompleteSearch(w0, expression, maxResultsArg, regionArg) ==
  LET w == Enter(w0, "autocompleteSearch")
      loc == [expression |-> expression,
              maxResults |-> Default(maxResultsArg, Num(DefaultAutocompleteMax)),
              region |-> Default(regionArg, Null)]
  IN  IF ~Truthy(expression)
      THEN Push(w, Done("autocompleteSearch", loc, Ret(EmptyList)))
      ELSE IF ~IsString(expression)
      THEN Push(LogError(w, "autocompleteSearch",
                         "Error getting autocomplete suggestions"),  \* TypeError, caught
                Done("autocompleteSearch", loc, Ret(EmptyList)))
      ELSE IF TooShort(expression)
      THEN Push(w, Done("autocompleteSearch", loc, Ret(EmptyList)))
      ELSE LET cacheKey == AutocompleteKey(expression, loc.maxResults, loc.region)
               w1 == Read(w, cacheKey)
               cachedSuggestions == getCachedResponse(w.cache, cacheKey)
           IN  IF Truthy(cachedSuggestions)
               THEN Push(w1, Done("autocompleteSearch", loc, Ret(cachedSuggestions)))
               ELSE getAccessToken(Push(w1, Frame("autocompleteSearch", "token", loc)))

\* autocompleteSearch resumed with the outcome of getAccessToken().
autocompleteSearch_token_Rethrows(w, out) ==
  IF out.k = "throw"
  THEN Finish(LogError(w, "autocompleteSearch",
                       "Error getting autocomplete suggestions"), Thr(out.v))
  ELSE Suspend(Fetch(w, AutocompleteRequest(out.v, Top(w).loc.expression,
                                            Top(w).loc.maxResults, Top(w).loc.region)),
               "fetch")

autocompleteSearch_token(w, out) ==
  IF out.k = "throw"
  THEN Finish(LogError(w, "autocompleteSearch",
                       "Error getting autocomplete suggestions"), Ret(EmptyList))
  ELSE Suspend(Fetch(w, AutocompleteRequest(out.v, Top(w).loc.expression,
                                            Top(w).loc.maxResults, Top(w).loc.region)),
               "fetch")

\* autocompleteSearch resumed with the autocomplete endpoint's answer.
\* The empty list of an absent field is stored like any list.
autocompleteSearch_response_StoresEmpty(w0, resp) ==
  LET w == Receive(w0, resp)
      caught == LogError(w, "autocompleteSearch", "Error getting autocomplete suggestions")
      key == AutocompleteKey(Top(w).loc.expression, Top(w).loc.maxResults, Top(w).loc.region)
  IN
  IF resp.kind = "reject" THEN Finish(caught, Ret(EmptyList))
  ELSE IF ~resp.ok
  THEN Finish(LogError(caught, "autocompleteSearch", "FatSecret autocomplete request failed"),
              Ret(EmptyList))
  ELSE IF ~CanRead(resp.json) THEN Finish(caught, Ret(EmptyList))
  ELSE LET suggestions == Envelope(resp.json, "suggestions", "suggestion")
       IN  IF suggestions = Undef
           THEN Finish(Write(w, key, EmptyList, AutocompleteTtl), Ret(EmptyList))
           ELSE Finish(Write(w, key, suggestions, AutocompleteTtl), Ret(suggestions))

autocompleteSearch_response(w0, resp) ==
  LET w == Receive(w0, resp)
      caught == LogError(w, "autocompleteSearch", "Error getting autocomplete suggestions")
  IN
  IF resp.kind = "reject" THEN Finish(caught, Ret(EmptyList))
  ELSE IF ~resp.ok
  THEN Finish(LogError(caught, "autocompleteSearch", "FatSecret autocomplete request failed"),
              Ret(EmptyList))
  ELSE IF ~CanRead(resp.json) THEN Finish(caught, Ret(EmptyList))  \* TypeError, caught
  ELSE LET suggestions == Envelope(resp.json, "suggestions", "suggestion")
       IN  IF suggestions = Undef
           THEN Finish(w, Ret(EmptyList))
           ELSE Finish(Write(w, AutocompleteKey(Top(w).loc.expression, Top(w).loc.maxResults,
                                                Top(w).loc.region),
                             suggestions, AutocompleteTtl),
                       Ret(suggestions))

(***************************************************************************)
(* standardizeNutritionData                                                *)
(***************************************************************************)
DigitChars == {"0", "1", "2", "3", "4", "5", "6", "7", "8", "9"}

DigitValue(c) ==
  CASE c = "0" -> 0 [] c = "1" -> 1 [] c = "2" -> 2 [] c = "3" -> 3 [] c = "4" -> 4
    [] c = "5" -> 5 [] c = "6" -> 6 [] c = "7" -> 7 [] c = "8" -> 8 [] c = "9" -> 9

RECURSIVE TakeDigits(_)
TakeDigits(s) ==
  IF Len(s) > 0 /\ s[1] \in DigitChars THEN <<s[1]>> \o TakeDigits(Tail(s)) ELSE <<>>

RECURSIVE DigitsToNat(_)
DigitsToNat(s) ==
  IF Len(s) = 0 THEN 0
  ELSE 10 * DigitsToNat(SubSeq(s, 1, Len(s) - 1)) + DigitValue(s[Len(s)])

RECURSIVE DropTrailingZeros(_)
DropTrailingZeros(s) ==
  IF Len(s) > 0 /\ s[Len(s)] = "0" THEN DropTrailingZeros(SubSeq(s, 1, Len(s) - 1)) ELSE s

\* parseFloat(v): the longest decimal literal (digits, optionally a point and
\* digits) at the start of String(v), leading white space skipped; NaN when
\* there is none.  Signs and exponents are outside the inputs modelled.
parseFloat(v) ==
  IF v.t = "number" THEN v
  ELSE IF v.t # "string" THEN NaN
  ELSE LET s == trimStart(v.s)
           ip == TakeDigits(s)
           rest == SubSeq(s, Len(ip) + 1, Len(s))
           fp == IF Len(rest) > 0 /\ rest[1] = "." THEN TakeDigits(Tail(rest)) ELSE <<>>
       IN  IF Len(ip) = 0 /\ Len(fp) = 0 THEN NaN
           ELSE Dec(DigitsToNat(ip), DropTrailingZeros(fp))

UnknownFood == Str(<<"U", "n", "k", "n", "o", "w", "n", " ", "F", "o", "o", "d">>)
FatSecret == Str(<<"F", "a", "t", "S", "e", "c", "r", "e", "t">>)
DefaultServing == Str(<<"1", "0", "0", "g">>)

\* The micronutrient fields of a serving; MicroName: the key each gets.
MicroFields == {"fiber", "sugar", "sodium", "potassium", "cholesterol", "saturated_fat"}

MicroName(field) == IF field = "saturated_fat" THEN "saturatedFat" ELSE field

MicroField(name) == IF name = "saturatedFat" THEN "saturated_fat" ELSE name

\* if (serving.x) nutrition.microNutrients.x = parseFloat(serving.x), for each x.
MicroNutrients(serving) ==
  Obj([name \in {MicroName(x) : x \in {y \in MicroFields : Truthy(Get(serving, y))}} |->
         parseFloat(Get(serving, MicroField(name)))])

\* The default empty nutrition object.
DefaultNutrition(fatSecretFood) ==
  Obj([calories |-> Num(0), protein |-> Num(0), fat |-> Num(0), carbohydrates |-> Num(0),
       foodName |-> OrElse(Get(fatSecretFood, "food_name"), UnknownFood),
       source |-> FatSecret, servingSize |-> DefaultServing, microNutrients |-> Obj(<<>>)])

\* The first serving, or the only serving if it is not an array.
SelectServing(servings) ==
  IF IsArray(Get(servings, "serving")) THEN First(Get(servings, "serving"))
  ELSE Get(servings, "serving")

\* standardizeNutritionData(fatSecretFood): Ret(record), or Thr of the TypeError
\* the read of food_name raises before the try block.
standardizeNutritionData(fatSecretFood) ==
  IF ~CanRead(fatSecretFood) THEN Thr(TypeError)
  ELSE IF ~Truthy(Get(fatSecretFood, "servings"))
          \/ ~Truthy(Get(Get(fatSecretFood, "servings"), "serving"))
  THEN Ret(DefaultNutrition(fatSecretFood))
  ELSE LET serving == SelectServing(Get(fatSecretFood, "servings"))
       IN  IF ~CanRead(serving)
           THEN Ret(DefaultNutrition(fatSecretFood))  \* TypeError, caught
           ELSE Ret(Obj([calories |-> OrElse(parseFloat(Get(serving, "calories")), Num(0)),
                         protein |-> OrElse(parseFloat(Get(serving, "protein")), Num(0)),
                         fat |-> OrElse(parseFloat(Get(serving, "fat")), Num(0)),
                         carbohydrates |->
                           OrElse(parseFloat(Get(serving, "carbohydrate")), Num(0)),
                         foodName |-> OrElse(Get(fatSecretFood, "food_name"), UnknownFood),
                         source |-> FatSecret,
                         servingSize |->
                           OrElse(Get(serving, "serving_description"), DefaultServing),
                         microNutrients |-> MicroNutrients(serving)]))

\* The catch block of standardizeNutritionData runs: there is a serving
\* entry, and the serving selected from it cannot be read.
ServingUnreadable(fatSecretFood) ==
  /\ CanRead(fatSecretFood)
  /\ Truthy(Get(fatSecretFood, "servings"))
  /\ Truthy(Get(Get(fatSecretFood, "servings"), "serving"))
  /\ ~CanRead(SelectServing(Get(fatSecretFood, "servings")))

\* A call of standardizeNutritionData from outside the module, whole: the
\* function awaits nothing.
standardizeNutritionData_call(w, fatSecretFood) ==
  LET w1 == Enter(w, "standardizeNutritionData")
      w2 == IF ServingUnreadable(fatSecretFood)
            THEN LogError(w1, "standardizeNutritionData",
                          "Error standardizing FatSecret nutrition data")
            ELSE w1
  IN  Push(w2, Done("standardizeNutritionData", [fatSecretFood |-> fatSecretFood],
                    standardizeNutritionData(fatSecretFood)))

(***************************************************************************)
(* getNutritionFromFatSecret                                               *)
(***************************************************************************)
NutritionKeyPrefix ==
  FATSECRET_ \o <<"n", "u", "t", "r", "i", "t", "i", "o", "n", "_">>

\* `fatsecret_nutrition_${foodLabel.toLowerCase().trim()}`
NutritionKey(foodLabel) == NutritionKeyPrefix \o trim(toLowerCase(foodLabel.s))

NutritionTtl == 86400

\* getNutritionFromFatSecret(foodLabel), up to its first await or its end.
getNutritionFromFatSecret(w0, foodLabel) ==
  LET w == Enter(w0, "getNutritionFromFatSecret")
      loc == [foodLabel |-> foodLabel]
  IN  IF ~Truthy(foodLabel)
      THEN Push(w, Done("getNutritionFromFatSecret", loc, Ret(Null)))
      ELSE IF ~IsString(foodLabel)
      THEN Push(LogError(w, "getNutritionFromFatSecret",
                         "Error getting nutrition from FatSecret"),  \* TypeError, caught
                Done("getNutritionFromFatSecret", loc, Ret(Null)))
      ELSE LET cacheKey == NutritionKey(foodLabel)
               w1 == Read(w, cacheKey)
               cachedNutrition == getCachedResponse(w.cache, cacheKey)
           IN  IF Truthy(cachedNutrition)
               THEN Push(w1, Done("getNutritionFromFatSecret", loc, Ret(cachedNutrition)))
               ELSE searchFoods(Push(w1, Frame("getNutritionFromFatSecret", "search", loc)),
                                foodLabel, Undef)

\* The last of the search results instead of the first.
FirstResult_Last(searchResults) ==
  IF IsArray(searchResults) /\ Len(searchResults.xs) > 0
  THEN searchResults.xs[Len(searchResults.xs)]
  ELSE Undef

\* searchResults[0]
FirstResult(searchResults) == IF IsArray(searchResults) THEN First(searchResults) ELSE Undef

\* The null of an empty search stored as if it were a record.
getNutritionFromFatSecret_search_CachesNull(w, out) ==
  IF out.k = "throw"
  THEN Finish(LogError(w, "getNutritionFromFatSecret",
                       "Error getting nutrition from FatSecret"), Ret(Null))
  ELSE IF ~Truthy(out.v) \/ (IsArray(out.v) /\ Len(out.v.xs) = 0)
  THEN Finish(Write(w, NutritionKey(Top(w).loc.foodLabel), Null, NutritionTtl), Ret(Null))
  ELSE IF ~CanRead(FirstResult(out.v))
  THEN Finish(LogError(w, "getNutritionFromFatSecret",
                       "Error getting nutrition from FatSecret"),
              Ret(Null))
  ELSE getFoodDetails(Suspend(w, "details"), Get(FirstResult(out.v), "food_id"))

\* getNutritionFromFatSecret resumed with the outcome of searchFoods(foodLabel).
getNutritionFromFatSecret_search(w, out) ==
  IF out.k = "throw"
  THEN Finish(LogError(w, "getNutritionFromFatSecret",
                       "Error getting nutrition from FatSecret"), Ret(Null))
  ELSE IF ~Truthy(out.v) \/ (IsArray(out.v) /\ Len(out.v.xs) = 0)
  THEN Finish(w, Ret(Null))
  ELSE IF ~CanRead(FirstResult(out.v))
  THEN Finish(LogError(w, "getNutritionFromFatSecret",
                       "Error getting nutrition from FatSecret"),  \* TypeError, caught
              Ret(Null))
  ELSE getFoodDetails(Suspend(w, "details"), Get(FirstResult(out.v), "food_id"))

\* The catch block rethrowing what getFoodDetails threw.
getNutritionFromFatSecret_details_Rethrows(w, out) ==
  IF out.k = "throw"
  THEN Finish(LogError(w, "getNutritionFromFatSecret",
                       "Error getting nutrition from FatSecret"), Thr(out.v))
  ELSE LET nutritionData == standardizeNutritionData(out.v)
       IN  IF nutritionData.k = "throw"
           THEN Finish(LogError(w, "getNutritionFromFatSecret",
                                "Error getting nutrition from FatSecret"), Ret(Null))
           ELSE Finish(Write(w, NutritionKey(Top(w).loc.foodLabel), nutritionData.v,
                             NutritionTtl),
                       Ret(nutritionData.v))

\* getNutritionFromFatSecret resumed with the outcome of getFoodDetails(foodId).
getNutritionFromFatSecret_details(w, out) ==
  IF out.k = "throw"
  THEN Finish(LogError(w, "getNutritionFromFatSecret",
                       "Error getting nutrition from FatSecret"), Ret(Null))
  ELSE LET nutritionData == standardizeNutritionData(out.v)
       IN  IF nutritionData.k = "throw"
           THEN Finish(LogError(w, "getNutritionFromFatSecret",
                                "Error getting nutrition from FatSecret"), Ret(Null))
           ELSE Finish(Write(w, NutritionKey(Top(w).loc.foodLabel), nutritionData.v,
                             NutritionTtl),
                       Ret(nutritionData.v))

(***************************************************************************)
(* The callable endpoints.                                                 *)
(***************************************************************************)
Success(fields) == Obj(fields)

\* The catch block of an endpoint: whatever was thrown in the try block
\* becomes an HttpsError 'internal' carrying the message of what was thrown.
Internal(message, error) == Thr(HttpsError("internal", message, error.msg))

\* searchFatSecretNutrition(data, context), up to its first await or its end:
\* data is whatever the caller hands over first.
searchFatSecretNutrition(w, data) ==
  LET loc == [data |-> data, request |-> data]
  IN  IF ~Truthy(Get(data, "foodName"))
      THEN Push(LogError(w, "searchFatSecretNutrition",
                         "Error searching FatSecret"),
                Done("searchFatSecretNutrition", loc,
                     Internal("Error searching for nutrition data",
                                 HttpsError("invalid-argument",
                                            "Missing food name to search", ""))))
      ELSE IF ~IsString(Get(data, "foodName"))
      THEN Push(LogError(w, "searchFatSecretNutrition",
                         "Error searching FatSecret"),
                Done("searchFatSecretNutrition", loc,
                     Internal("Error searching for nutrition data", TypeError)))
      ELSE getNutritionFromFatSecret(
             Push(w, Frame("searchFatSecretNutrition", "nutrition", loc)),
             Str(trim(Get(data, "foodName").s)))

\* searchFatSecretNutrition resumed with the outcome of getNutritionFromFatSecret.
searchFatSecretNutrition_nutrition(w, out) ==
  IF out.k = "throw"
  THEN Finish(LogError(w, "searchFatSecretNutrition", "Error searching FatSecret"),
              Internal("Error searching for nutrition data", out.v))
  ELSE IF ~Truthy(out.v)
  THEN Finish(w, Ret(Success([success |-> Bool(FALSE), source |-> FatSecret])))
  ELSE Finish(w, Ret(Success([success |-> Bool(TRUE), source |-> FatSecret,
                              nutritionData |-> out.v])))

\* getFatSecretFoodDetails(request), up to its first await or its end.
getFatSecretFoodDetails(w, request) ==
  LET data == Get(request, "data")
      loc == [data |-> data, request |-> request]
  IN  IF ~CanRead(data)  \* TypeError, and again in the catch block
      THEN Push(w, Done("getFatSecretFoodDetails", loc, Thr(TypeError)))
      ELSE IF ~Truthy(Get(data, "foodId"))
      THEN Push(LogError(w, "getFatSecretFoodDetails",
                         "Error getting FatSecret food details"),
                Done("getFatSecretFoodDetails", loc,
                     Internal("Error getting food details",
                                 HttpsError("invalid-argument", "Missing food ID", ""))))
      ELSE getFoodDetails(Push(w, Frame("getFatSecretFoodDetails", "details", loc)),
                          Get(data, "foodId"))

\* getFatSecretFoodDetails resumed with the outcome of getFoodDetails(foodId).
getFatSecretFoodDetails_details(w, out) ==
  IF out.k = "throw"
  THEN Finish(LogError(w, "getFatSecretFoodDetails",
                       "Error getting FatSecret food details"),
              Internal("Error getting food details", out.v))
  ELSE IF ~Truthy(out.v)
  THEN Finish(w, Ret(Success([success |-> Bool(FALSE), source |-> FatSecret])))
  ELSE LET nutritionData == standardizeNutritionData(out.v)
       IN  IF nutritionData.k = "throw"
           THEN Finish(LogError(w, "getFatSecretFoodDetails",
                                "Error getting FatSecret food details"),
                       Internal("Error getting food details", nutritionData.v))
           ELSE Finish(w, Ret(Success([success |-> Bool(TRUE), source |-> FatSecret,
                                       foodDetails |-> out.v,
                                       nutritionData |-> nutritionData.v])))

\* getAutocompleteSuggestions(request), up to its first await or its end.
getAutocompleteSuggestions(w, request) ==
  LET data == Get(request, "data")
      loc == [data |-> data, request |-> request]
  IN  IF ~CanRead(data)  \* TypeError, and again in the catch block
      THEN Push(w, Done("getAutocompleteSuggestions", loc, Thr(TypeError)))
      ELSE IF ~Truthy(Get(data, "query"))
      THEN Push(LogError(w, "getAutocompleteSuggestions",
                         "Error getting autocomplete suggestions"),
                Done("getAutocompleteSuggestions", loc,
                     Internal("Error getting autocomplete suggestions",
                                 HttpsError("invalid-argument", "Missing search query", ""))))
      ELSE IF ~IsString(Get(data, "query"))
      THEN Push(LogError(w, "getAutocompleteSuggestions",
                         "Error getting autocomplete suggestions"),
                Done("getAutocompleteSuggestions", loc,
                     Internal("Error getting autocomplete suggestions", TypeError)))
      ELSE autocompleteSearch(
             Push(w, Frame("getAutocompleteSuggestions", "suggestions", loc)),
             Str(trim(Get(data, "query").s)),
             OrElse(Get(data, "maxResults"), Num(DefaultAutocompleteMax)),
             OrElse(Get(data, "region"), Null))

\* getAutocompleteSuggestions resumed with the outcome of autocompleteSearch.
getAutocompleteSuggestions_suggestions(w, out) ==
  IF out.k = "throw"
  THEN Finish(LogError(w, "getAutocompleteSuggestions",
                       "Error getting autocomplete suggestions"),
              Internal("Error getting autocomplete suggestions", out.v))
  ELSE IF ~CanRead(out.v)
  THEN Finish(LogError(w, "getAutocompleteSuggestions",
                       "Error getting autocomplete suggestions"),
              Internal("Error getting autocomplete suggestions", TypeError))
  ELSE Finish(w, Ret(Success([success |-> Bool(TRUE), suggestions |-> out.v])))

(***************************************************************************)
(* Actions.                                                                *)
(***************************************************************************)
CanCall(p) == IsIdle(p) /\ ncalls < MaxCalls

Called(p, w) == Becomes(p, w) /\ ncalls' = ncalls + 1

Resumed(p, w) == Becomes(p, w) /\ UNCHANGED ncalls

(***************************************************************************)
(* What callers pass and what the service answers.                         *)
(***************************************************************************)
\* Strings callers pass for a food: empty, blank, and two spellings of "a".
QueryStrings == {<<>>, <<" ">>, <<"A">>, <<"a", " ">>}

\* A food label or a search query, or none.
Labels == {Undef} \cup {Str(s) : s \in QueryStrings}

\* Strings callers pass to complete: empty, one letter, and two spellings of "ab".
ExpressionStrings == {<<>>, <<" ", "a", " ">>, <<"A", "b">>, <<" ", "a", "b">>}

\* An expression to complete, or none.
Expressions == {Undef} \cup {Str(s) : s \in ExpressionStrings}

SearchMaxArgs == {Undef, Num(1)}

AutocompleteMaxArgs == {Undef, Num(50)}

Regions == {Undef, Str(<<"U", "S">>)}

FoodIds == {Str(<<"1">>), Str(<<"2">>)}

FoodIdArgs == {Undef} \cup FoodIds

FoodSummary(id) == Obj([food_id |-> id])

\* foods.search bodies: no foods, foods without food, one object, a list, an empty list.
SearchBodies ==
  {Obj(<<>>),
   Obj([foods |-> Obj([total_results |-> Str(<<"0">>)])]),
   Obj([foods |-> Obj([food |-> FoodSummary(Str(<<"1">>))])]),
   Obj([foods |-> Obj([food |-> Arr(<<FoodSummary(Str(<<"2">>)), FoodSummary(Str(<<"1">>))>>)])]),
   Obj([foods |-> Obj([food |-> Arr(<<>>)])])}

SearchResponses == Failures \cup {HttpOk(b) : b \in SearchBodies}

Kale == Str(<<"k", "a", "l", "e">>)

ServingCup ==
  Obj([serving_description |-> Str(<<"1", " ", "c", "u", "p">>),
       calories |-> Str(<<"3", "3">>), protein |-> Str(<<"2", ".", "9">>),
       fiber |-> Str(<<"3", ".", "2">>)])

Serving100g ==
  Obj([serving_description |-> Str(<<"1", "0", "0", " ", "g">>),
       calories |-> Str(<<"4", "9">>), fat |-> Str(<<"0", ".", "9">>),
       carbohydrate |-> Str(<<"8", ".", "7", "5">>), sugar |-> Str(<<"0">>)])

\* food.get.v2 payloads: a food with two servings.
FoodDetails ==
  {Obj([food_name |-> Kale, servings |-> Obj([serving |-> Arr(<<ServingCup, Serving100g>>)])])}

\* food.get.v2 bodies: with a food, or (an error reported with status 200) without.
DetailsBodies == {Obj([food |-> d]) : d \in FoodDetails} \cup {Obj(<<>>)}

DetailsResponses == Failures \cup {HttpOk(b) : b \in DetailsBodies}

Suggestion(s) == Str(s)

\* foods.autocomplete.v2 bodies: none, one string, a list.
AutocompleteBodies ==
  {Obj(<<>>),
   Obj([suggestions |-> Obj([suggestion |-> Suggestion(<<"a", "b", "c">>)])]),
   Obj([suggestions |-> Obj([suggestion |->
          Arr(<<Suggestion(<<"a", "b", "d">>), Suggestion(<<"a", "b", "c">>)>>)])])}

AutocompleteResponses == Failures \cup {HttpOk(b) : b \in AutocompleteBodies}

\* The payload of a callable request: each field a value or missing.
Payloads(field, values) == {Obj(<<>>)} \cup {Obj([x \in {field} |-> v]) : v \in values}

\* What onCall of firebase-functions/v2/https hands a handler: the request,
\* with the payload in its data.
Requests(field, values) == {Obj([data |-> d]) : d \in Payloads(field, values)}

(***************************************************************************)
(* One action per call and per resumption.                                 *)
(***************************************************************************)
\* The outcome of the callee that has ended, and the world without its frame.
Outcome(p) == procs[p].stack[Len(procs[p].stack)].out

Caller(p) == Pop(World(p))

\* Servings a detail payload may carry: the two of the kale payload, one
\* with every micronutrient, one whose fields are no numbers, and one whose
\* fields are zero or empty.
NormalizerServings ==
  {ServingCup, Serving100g,
   Obj([calories |-> Str(<<"1", "2">>), fiber |-> Str(<<"1">>), sugar |-> Str(<<"2">>),
        sodium |-> Str(<<"3">>), potassium |-> Str(<<"4">>),
        cholesterol |-> Str(<<"5">>), saturated_fat |-> Str(<<"1", ".", "5">>)]),
   Obj([calories |-> Str(<<"n", "/", "a">>), protein |-> Null,
        fiber |-> Str(<<"x">>), serving_description |-> Str(<<>>)]),
   Obj([calories |-> Num(0), fiber |-> Num(0), sodium |-> Str(<<>>),
        sugar |-> Str(<<"0">>), potassium |-> Num(5)])}

\* The serving entry of a payload: a sole serving, a list of one or two, an
\* empty list, or nothing usable.
ServingEntries ==
  NormalizerServings
    \cup {Arr(<<sv>>) : sv \in NormalizerServings}
    \cup {Arr(<<sv, ServingCup>>) : sv \in NormalizerServings}
    \cup {Arr(<<>>), Null}

\* What standardizeNutritionData may be handed: nothing, a payload without
\* servings, or one with a serving entry; with or without a food name.
NormalizerPayloads ==
  {Undef, Null, Obj(<<>>), Obj([food_name |-> Kale]),
   Obj([food_name |-> Kale, servings |-> Obj(<<>>)])}
    \cup {Obj([food_name |-> Kale, servings |-> Obj([serving |-> e])]) : e \in ServingEntries}
    \cup {Obj([servings |-> Obj([serving |-> e])]) : e \in ServingEntries}

Call_standardizeNutritionData(p) ==
  /\ CanCall(p)
  /\ \E fatSecretFood \in NormalizerPayloads :
       Called(p, standardizeNutritionData_call(World(p), fatSecretFood))

\* One of the four operations, each with the arguments every caller uses, so
\* that two calls of the same operation are calls for the same cache key.
Call_SameKey(p) ==
  /\ CanCall(p)
  /\ \/ Called(p, getAccessToken(World(p)))
     \/ Called(p, searchFoods(World(p), Str(<<"A">>), Undef))
     \/ Called(p, getFoodDetails(World(p), Str(<<"1">>)))
     \/ Called(p, autocompleteSearch(World(p), Str(<<"a", "b">>), Undef, Undef))

Call_getAccessToken(p) ==
  /\ CanCall(p)
  /\ Called(p, getAccessToken(World(p)))

TokenResponse(p) ==
  /\ At(p, "getAccessToken", "fetch")
  /\ \E resp \in TokenResponses : Resumed(p, getAccessToken_response(World(p), resp))

Call_searchFoods(p) ==
  /\ CanCall(p)
  /\ \E query \in Labels, maxResults \in SearchMaxArgs :
       Called(p, searchFoods(World(p), query, maxResults))

SearchFoods_Token(p) ==
  /\ Returned(p, "searchFoods", "token")
  /\ Resumed(p, searchFoods_token(Caller(p), Outcome(p)))

SearchFoods_Response(p) ==
  /\ At(p, "searchFoods", "fetch")
  /\ \E resp \in SearchResponses : Resumed(p, searchFoods_response(World(p), resp))

Call_getFoodDetails(p) ==
  /\ CanCall(p)
  /\ \E foodId \in FoodIdArgs : Called(p, getFoodDetails(World(p), foodId))

GetFoodDetails_Token(p) ==
  /\ Returned(p, "getFoodDetails", "token")
  /\ Resumed(p, getFoodDetails_token(Caller(p), Outcome(p)))

GetFoodDetails_Response(p) ==
  /\ At(p, "getFoodDetails", "fetch")
  /\ \E resp \in DetailsResponses : Resumed(p, getFoodDetails_response(World(p), resp))

Call_autocompleteSearch(p) ==
  /\ CanCall(p)
  /\ \E expression \in Expressions, maxResults \in AutocompleteMaxArgs, region \in Regions :
       Called(p, autocompleteSearch(World(p), expression, maxResults, region))

\* Result limits callers pass: none, below, at and above the service's limit.
LimitArgs == {Undef, Num(-1), Num(0), Num(4), Num(10), Num(11), Num(50)}

\* autocompleteSearch("ab", maxResults) for each of these limits.
Call_autocompleteSearch_Limits(p) ==
  /\ CanCall(p)
  /\ \E maxResults \in LimitArgs :
       Called(p, autocompleteSearch(World(p), Str(<<"a", "b">>), maxResults, Undef))

\* Regions callers pass: none, a country, and the word the key writes for none.
RegionArgs == {Undef, Str(<<"u", "s">>), Str(<<"d", "e", "f", "a", "u", "l", "t">>)}

\* autocompleteSearch("ab", 4, region) for each of these regions.
Call_autocompleteSearch_Regions(p) ==
  /\ CanCall(p)
  /\ \E region \in RegionArgs :
       Called(p, autocompleteSearch(World(p), Str(<<"a", "b">>), Undef, region))

Autocomplete_Token(p) ==
  /\ Returned(p, "autocompleteSearch", "token")
  /\ Resumed(p, autocompleteSearch_token(Caller(p), Outcome(p)))

Autocomplete_Response(p) ==
  /\ At(p, "autocompleteSearch", "fetch")
  /\ \E resp \in AutocompleteResponses :
       Resumed(p, autocompleteSearch_response(World(p), resp))

Call_getNutritionFromFatSecret(p) ==
  /\ CanCall(p)
  /\ \E foodLabel \in Labels : Called(p, getNutritionFromFatSecret(World(p), foodLabel))

GetNutrition_Search(p) ==
  /\ Returned(p, "getNutritionFromFatSecret", "search")
  /\ Resumed(p, getNutritionFromFatSecret_search(Caller(p), Outcome(p)))

GetNutrition_Details(p) ==
  /\ Returned(p, "getNutritionFromFatSecret", "details")
  /\ Resumed(p, getNutritionFromFatSecret_details(Caller(p), Outcome(p)))

Call_searchFatSecretNutrition(p) ==
  /\ CanCall(p)
  /\ \E data \in Requests("foodName", Labels) \cup Payloads("foodName", Labels) :
       Called(p, searchFatSecretNutrition(World(p), data))

SearchFatSecretNutrition_Nutrition(p) ==
  /\ Returned(p, "searchFatSecretNutrition", "nutrition")
  /\ Resumed(p, searchFatSecretNutrition_nutrition(Caller(p), Outcome(p)))

Call_getFatSecretFoodDetails(p) ==
  /\ CanCall(p)
  /\ \E request \in Requests("foodId", FoodIdArgs \cup {Str(<<>>)}) :
       Called(p, getFatSecretFoodDetails(World(p), request))

GetFatSecretFoodDetails_Details(p) ==
  /\ Returned(p, "getFatSecretFoodDetails", "details")
  /\ Resumed(p, getFatSecretFoodDetails_details(Caller(p), Outcome(p)))

Call_getAutocompleteSuggestions(p) ==
  /\ CanCall(p)
  /\ \E request \in Requests("query", Expressions) :
       Called(p, getAutocompleteSuggestions(World(p), request))

GetAutocompleteSuggestions_Suggestions(p) ==
  /\ Returned(p, "getAutocompleteSuggestions", "suggestions")
  /\ Resumed(p, getAutocompleteSuggestions_suggestions(Caller(p), Outcome(p)))

\* The outermost call has ended and its caller has its result.
Return(p) ==
  /\ Len(procs[p].stack) = 1
  /\ procs[p].stack[1].pc = "done"
  /\ procs' = [procs EXCEPT ![p] = Idle]
  /\ UNCHANGED <<now, env, cache, ncalls>>

\* The instants at which something stored runs out.
Deadlines ==
  {cache[k].expiresAt : k \in DOMAIN cache}
    \cup {Get(cache[k].v, "expires_at").int :
            k \in {x \in DOMAIN cache : Get(cache[x].v, "expires_at").t = "number"}}

\* Time passes: to the last millisecond before a deadline, or to it.
Tick ==
  /\ \E d \in Deadlines : \E t \in {d - 1, d} : t > now /\ now' = t
  /\ UNCHANGED <<env, cache, procs, ncalls>>

\* Time passes between two calls.
TickIdle ==
  /\ \A p \in Procs : IsIdle(p)
  /\ ncalls < MaxCalls
  /\ Tick

Init ==
  /\ now = 0
  /\ env \in [clientId : BOOLEAN, clientSecret : BOOLEAN]
  /\ cache = <<>>
  /\ procs = [p \in Procs |-> Idle]
  /\ ncalls = 0

\* The token manager alone.
NextToken ==
  \/ \E p \in SeqProcs : Call_getAccessToken(p)
  \/ \E p \in SeqProcs : TokenResponse(p)
  \/ \E p \in SeqProcs : Return(p)
  \/ Tick

SpecToken == Init /\ [][NextToken]_vars

\* The search client, called directly.
NextSearch ==
  \/ \E p \in SeqProcs : Call_searchFoods(p)
  \/ \E p \in SeqProcs : SearchFoods_Token(p)
  \/ \E p \in SeqProcs : SearchFoods_Response(p)
  \/ \E p \in SeqProcs : TokenResponse(p)
  \/ \E p \in SeqProcs : Return(p)
  \/ TickIdle

SpecSearch == Init /\ [][NextSearch]_vars

\* The detail client, called directly.
NextDetails ==
  \/ \E p \in SeqProcs : Call_getFoodDetails(p)
  \/ \E p \in SeqProcs : GetFoodDetails_Token(p)
  \/ \E p \in SeqProcs : GetFoodDetails_Response(p)
  \/ \E p \in SeqProcs : TokenResponse(p)
  \/ \E p \in SeqProcs : Return(p)
  \/ TickIdle

SpecDetails == Init /\ [][NextDetails]_vars

\* The autocomplete client, called directly.
NextAutocomplete ==
  \/ \E p \in SeqProcs : Call_autocompleteSearch(p)
  \/ \E p \in SeqProcs : Autocomplete_Token(p)
  \/ \E p \in SeqProcs : Autocomplete_Response(p)
  \/ \E p \in SeqProcs : TokenResponse(p)
  \/ \E p \in SeqProcs : Return(p)
  \/ TickIdle

SpecAutocomplete == Init /\ [][NextAutocomplete]_vars

\* autocompleteSearch called with every limit, at one instant.
NextAutocompleteLimits ==
  \/ \E p \in SeqProcs : Call_autocompleteSearch_Limits(p)
  \/ \E p \in SeqProcs : Autocomplete_Token(p)
  \/ \E p \in SeqProcs : Autocomplete_Response(p)
  \/ \E p \in SeqProcs : TokenResponse(p)
  \/ \E p \in SeqProcs : Return(p)

SpecAutocompleteLimits == Init /\ [][NextAutocompleteLimits]_vars

\* Two callers of autocompleteSearch at a time, each with a region of its own.
NextAutocompleteRegions ==
  \/ \E p \in Procs : Call_autocompleteSearch_Regions(p)
  \/ \E p \in Procs : Autocomplete_Token(p)
  \/ \E p \in Procs : Autocomplete_Response(p)
  \/ \E p \in Procs : TokenResponse(p)
  \/ \E p \in Procs : Return(p)

SpecAutocompleteRegions == Init /\ [][NextAutocompleteRegions]_vars

\* The three clients, called directly, at one instant.
NextClients ==
  \/ \E p \in SeqProcs : Call_searchFoods(p)
  \/ \E p \in SeqProcs : SearchFoods_Token(p)
  \/ \E p \in SeqProcs : SearchFoods_Response(p)
  \/ \E p \in SeqProcs : Call_getFoodDetails(p)
  \/ \E p \in SeqProcs : GetFoodDetails_Token(p)
  \/ \E p \in SeqProcs : GetFoodDetails_Response(p)
  \/ \E p \in SeqProcs : Call_autocompleteSearch(p)
  \/ \E p \in SeqProcs : Autocomplete_Token(p)
  \/ \E p \in SeqProcs : Autocomplete_Response(p)
  \/ \E p \in SeqProcs : TokenResponse(p)
  \/ \E p \in SeqProcs : Return(p)

SpecClients == Init /\ [][NextClients]_vars

\* The orchestrator, and what it calls.
NextNutrition ==
  \/ \E p \in SeqProcs : Call_getNutritionFromFatSecret(p)
  \/ \E p \in SeqProcs : GetNutrition_Search(p)
  \/ \E p \in SeqProcs : GetNutrition_Details(p)
  \/ \E p \in SeqProcs : SearchFoods_Token(p)
  \/ \E p \in SeqProcs : SearchFoods_Response(p)
  \/ \E p \in SeqProcs : GetFoodDetails_Token(p)
  \/ \E p \in SeqProcs : GetFoodDetails_Response(p)
  \/ \E p \in SeqProcs : TokenResponse(p)
  \/ \E p \in SeqProcs : Return(p)
  \/ TickIdle

SpecNutrition == Init /\ [][NextNutrition]_vars

\* The callable endpoints, and what they call.
NextEndpoints ==
  \/ \E p \in SeqProcs : Call_searchFatSecretNutrition(p)
  \/ \E p \in SeqProcs : SearchFatSecretNutrition_Nutrition(p)
  \/ \E p \in SeqProcs : Call_getFatSecretFoodDetails(p)
  \/ \E p \in SeqProcs : GetFatSecretFoodDetails_Details(p)
  \/ \E p \in SeqProcs : Call_getAutocompleteSuggestions(p)
  \/ \E p \in SeqProcs : GetAutocompleteSuggestions_Suggestions(p)
  \/ \E p \in SeqProcs : GetNutrition_Search(p)
  \/ \E p \in SeqProcs : GetNutrition_Details(p)
  \/ \E p \in SeqProcs : SearchFoods_Token(p)
  \/ \E p \in SeqProcs : SearchFoods_Response(p)
  \/ \E p \in SeqProcs : GetFoodDetails_Token(p)
  \/ \E p \in SeqProcs : GetFoodDetails_Response(p)
  \/ \E p \in SeqProcs : Autocomplete_Token(p)
  \/ \E p \in SeqProcs : Autocomplete_Response(p)
  \/ \E p \in SeqProcs : TokenResponse(p)
  \/ \E p \in SeqProcs : Return(p)

SpecEndpoints == Init /\ [][NextEndpoints]_vars

\* Two callers at once, each in one of the four operations.
NextSameKey ==
  \/ \E p \in Procs : Call_SameKey(p)
  \/ \E p \in Procs : TokenResponse(p)
  \/ \E p \in Procs : SearchFoods_Token(p)
  \/ \E p \in Procs : SearchFoods_Response(p)
  \/ \E p \in Procs : GetFoodDetails_Token(p)
  \/ \E p \in Procs : GetFoodDetails_Response(p)
  \/ \E p \in Procs : Autocomplete_Token(p)
  \/ \E p \in Procs : Autocomplete_Response(p)
  \/ \E p \in Procs : Return(p)

SpecSameKey == Init /\ [][NextSameKey]_vars

\* The five operations of the module that use the cache, called one after
\* another at one instant.
NextModule ==
  \/ \E p \in SeqProcs : Call_getAccessToken(p)
  \/ \E p \in SeqProcs : Call_searchFoods(p)
  \/ \E p \in SeqProcs : Call_getFoodDetails(p)
  \/ \E p \in SeqProcs : Call_getNutritionFromFatSecret(p)
  \/ \E p \in SeqProcs : Call_autocompleteSearch(p)
  \/ \E p \in SeqProcs : TokenResponse(p)
  \/ \E p \in SeqProcs : SearchFoods_Token(p)
  \/ \E p \in SeqProcs : SearchFoods_Response(p)
  \/ \E p \in SeqProcs : GetFoodDetails_Token(p)
  \/ \E p \in SeqProcs : GetFoodDetails_Response(p)
  \/ \E p \in SeqProcs : GetNutrition_Search(p)
  \/ \E p \in SeqProcs : GetNutrition_Details(p)
  \/ \E p \in SeqProcs : Autocomplete_Token(p)
  \/ \E p \in SeqProcs : Autocomplete_Response(p)
  \/ \E p \in SeqProcs : Return(p)

SpecModule == Init /\ [][NextModule]_vars

\* The normalizer, called directly.
NextNormalizer ==
  \/ \E p \in SeqProcs : Call_standardizeNutritionData(p)
  \/ \E p \in SeqProcs : Return(p)

SpecNormalizer == Init /\ [][NextNormalizer]_vars

(***************************************************************************)
(* Properties.                                                             *)
(***************************************************************************)
\* The outermost call of p was to fn and has ended.
Ended(p, fn) ==
  /\ Len(procs[p].stack) = 1
  /\ procs[p].stack[1].fn = fn
  /\ procs[p].stack[1].pc = "done"

\* How the outermost call of p ended, and what it was given.
Result(p) == procs[p].stack[1].out

Args(p) == procs[p].stack[1].loc

\* In this step p, idle, calls fn.
Begins(p, fn) ==
  /\ IsIdle(p)
  /\ ~IsIdle(p)'
  /\ procs'[p].stack[1].fn = fn

\* C1: once a grant with lifetime E seconds was obtained at time t, a call
\* of getAccessToken before t + E - 60 s returns the cached token and issues
\* no request, and a call at or after that instant issues a new token
\* request.
C1_TokenServedUntilMargin ==
  [][\A p \in Procs :
       (Begins(p, "getAccessToken") /\ TOKEN_CACHE_KEY \in DOMAIN cache) =>
         LET grant == cache[TOKEN_CACHE_KEY]
             t == grant.storedAt
             E == Get(grant.v, "expires_in").int
         IN  IF now < t + (E * 1000) - (60 * 1000)
             THEN /\ Ended(p, "getAccessToken")'
                  /\ Result(p)' = Ret(Get(grant.v, "access_token"))
                  /\ procs'[p].reqs = <<>>
             ELSE /\ At(p, "getAccessToken", "fetch")'
                  /\ procs'[p].reqs = <<TokenRequest>>]_vars

\* A call in the last millisecond of an hour-long grant's window was served
\* from the cache.
C1_ServedAtEndOfWindow ==
  \E p \in Procs :
    /\ Ended(p, "getAccessToken")
    /\ TOKEN_CACHE_KEY \in DOMAIN cache
    /\ Get(cache[TOKEN_CACHE_KEY].v, "expires_in") = Num(3600)
    /\ now = cache[TOKEN_CACHE_KEY].storedAt + 3540000 - 1
    /\ Result(p) = Ret(Get(cache[TOKEN_CACHE_KEY].v, "access_token"))
    /\ procs[p].reqs = <<>>

\* A call at the end of the window went to the token endpoint.
C1_RefetchedAtEndOfWindow ==
  \E p \in Procs :
    /\ At(p, "getAccessToken", "fetch")
    /\ TOKEN_CACHE_KEY \in DOMAIN cache
    /\ now = cache[TOKEN_CACHE_KEY].storedAt + 3540000

\* The endpoints and the field each requires of its payload.
RequiredField ==
  [searchFatSecretNutrition |-> "foodName",
   getFatSecretFoodDetails |-> "foodId",
   getAutocompleteSuggestions |-> "query"]

\* The payload of the caller of an endpoint: the data of the request, or
\* what was handed over itself when it is no request.
Payload(p) ==
  IF Get(Args(p).request, "data") # Undef
  THEN Get(Args(p).request, "data")
  ELSE Args(p).request

\* C2: an endpoint called without its required argument, or with an empty
\* one, fails with the invalid-argument signal, not the internal one, and
\* enters no function of the utility.
C2_MissingArgumentIsInvalidArgument ==
  \A p \in Procs : \A handler \in DOMAIN RequiredField :
    (Ended(p, handler) /\ ~Truthy(Get(Payload(p), RequiredField[handler]))) =>
      /\ Result(p).k = "throw"
      /\ Result(p).v.code = "invalid-argument"
      /\ procs[p].fns = {}

\* A step of the outermost call of p failed: a catch block of the utility
\* ran, or a request was rejected or answered with a non-success status.
ChainFailed(p) ==
  \/ \E e \in procs[p].errors :
       e[1] \in {"getAccessToken", "searchFoods", "getFoodDetails",
                 "autocompleteSearch", "getNutritionFromFatSecret"}
  \/ \E i \in DOMAIN procs[p].resps : procs[p].resps[i] \in Failures

\* The last request of p and the answer to it.
LastRequest(p) == procs[p].reqs[Len(procs[p].reqs)]

LastResponse(p) == procs[p].resps[Len(procs[p].resps)]

Answered(p) == Len(procs[p].reqs) > 0 /\ Len(procs[p].resps) = Len(procs[p].reqs)

\* C3: getNutritionFromFatSecret never ends with an exception, and when a
\* step of its chain failed (no credentials, token grant, search, detail
\* lookup, the normalizer on an undefined payload) it returns null.
C3_NutritionNeverThrows ==
  \A p \in Procs :
    Ended(p, "getNutritionFromFatSecret") =>
      /\ Result(p).k = "return"
      /\ ChainFailed(p) => Result(p) = Ret(Null)

\* The detail lookup answered success without a food, the normalizer threw
\* on the undefined payload, and the call returned null.
C3_NullAfterUndefinedPayload ==
  \E p \in Procs :
    /\ Ended(p, "getNutritionFromFatSecret")
    /\ Answered(p)
    /\ LastRequest(p).method = "food.get.v2"
    /\ LastResponse(p) = HttpOk(Obj(<<>>))
    /\ Result(p) = Ret(Null)

\* The detail lookup was refused and the call returned null.
C3_NullAfterDetailFailure ==
  \E p \in Procs :
    /\ Ended(p, "getNutritionFromFatSecret")
    /\ Answered(p)
    /\ LastRequest(p).method = "food.get.v2"
    /\ LastResponse(p) \in Failures
    /\ Result(p) = Ret(Null)

\* C4: searchFoods never ends with an exception: when the token could not
\* be had or the search request failed, it returns the empty list.
C4_SearchNeverThrows ==
  \A p \in Procs :
    Ended(p, "searchFoods") =>
      /\ Result(p).k = "return"
      /\ ChainFailed(p) => Result(p) = Ret(EmptyList)

\* Without credentials the search returned the empty list, no request made.
C4_EmptyWithoutCredentials ==
  \E p \in Procs :
    /\ Ended(p, "searchFoods")
    /\ <<"getAccessToken", "FatSecret API credentials not configured">> \in procs[p].errors
    /\ procs[p].reqs = <<>>
    /\ Result(p) = Ret(EmptyList)

\* The search request was answered with a non-success status and the search
\* returned the empty list.
C4_EmptyAfterSearchFailure ==
  \E p \in Procs :
    /\ Ended(p, "searchFoods")
    /\ Answered(p)
    /\ LastRequest(p).method = "foods.search"
    /\ LastResponse(p) = HttpError(500)
    /\ Result(p) = Ret(EmptyList)

\* C5: getFoodDetails on a miss: when the token could not be had or the
\* detail request failed it ends with an error and leaves the food's key
\* unwritten; on a success response it stores the payload under the key of
\* foodId for 7 days and returns it.
C5_DetailsFailClosed ==
  \A p \in Procs :
    Ended(p, "getFoodDetails") =>
      LET key == FATSECRET_ \o <<"f", "o", "o", "d", "_">> \o ToStr(Args(p).foodId)
      IN  /\ ChainFailed(p) => (Result(p).k = "throw" /\ key \notin procs[p].writes)
          /\ (Answered(p) /\ LastRequest(p).method = "food.get.v2" /\ LastResponse(p).ok) =>
               LET payload == Get(LastResponse(p).json, "food")
               IN  /\ Result(p) = Ret(payload)
                   /\ key \in procs[p].writes
                   /\ cache[key] = [v |-> payload, storedAt |-> now,
                                    expiresAt |-> now + (7 * 24 * 60 * 60 * 1000)]

\* A detail lookup ended with an error after the endpoint refused, its key
\* unwritten, while the payload of an earlier lookup is stored for 7 days.
C5_ErrorAfterStoredLookup ==
  \E p \in Procs :
    /\ Ended(p, "getFoodDetails")
    /\ Answered(p)
    /\ LastRequest(p).method = "food.get.v2"
    /\ LastResponse(p) = HttpError(500)
    /\ Result(p).k = "throw"
    /\ FoodKey(Args(p).foodId) \notin DOMAIN cache
    /\ \E k \in DOMAIN cache :
         /\ \E id \in FoodIds : k = FoodKey(id)
         /\ cache[k].v \in FoodDetails
         /\ cache[k].expiresAt - cache[k].storedAt = 604800000

\* The lower-cased, trimmed form of a label.
Normalized(label) == trim(toLowerCase(label.s))

NutritionEntryKey(label) ==
  FATSECRET_ \o <<"n", "u", "t", "r", "i", "t", "i", "o", "n", "_">> \o Normalized(label)

DayMs == 24 * 60 * 60 * 1000

\* A call of getNutritionFromFatSecret that missed, found results and looked
\* the detail up without failure: the detail is that of the first result, the
\* normalized record is stored under the label's key for 24 hours and returned.
C6_StoresFirstResult(p) ==
  (/\ Ended(p, "getNutritionFromFatSecret")
   /\ "getFoodDetails" \in procs[p].fns
   /\ ~ChainFailed(p)) =>
    LET label == Args(p).foodLabel
        first == cache[SearchKey(label)].v.xs[1]
        id == Get(first, "food_id")
        record == standardizeNutritionData(cache[FoodKey(id)].v).v
    IN  /\ \A i \in DOMAIN procs[p].reqs :
             procs[p].reqs[i].method = "food.get.v2" => procs[p].reqs[i].food_id = ToStr(id)
        /\ Result(p) = Ret(record)
        /\ NutritionEntryKey(label) \in procs[p].writes
        /\ cache[NutritionEntryKey(label)] =
             [v |-> record, storedAt |-> now, expiresAt |-> now + DayMs]

\* A call whose label has the normalized form of a record stored less than
\* 24 hours ago returns that record; it issues no request and enters neither
\* the search, nor the detail lookup, nor the token acquisition.
C6_ServesStoredRecord(p) ==
  (/\ Begins(p, "getNutritionFromFatSecret")
   /\ IsString(Args(p)'.foodLabel)
   /\ Truthy(Args(p)'.foodLabel)
   /\ NutritionEntryKey(Args(p)'.foodLabel) \in DOMAIN cache
   /\ now < cache[NutritionEntryKey(Args(p)'.foodLabel)].storedAt + DayMs) =>
    /\ Ended(p, "getNutritionFromFatSecret")'
    /\ Result(p)' = Ret(cache[NutritionEntryKey(Args(p)'.foodLabel)].v)
    /\ procs'[p].reqs = <<>>
    /\ procs'[p].fns = {"getNutritionFromFatSecret"}
    /\ cache' = cache

\* C6: on a miss with results and a successful detail lookup,
\* getNutritionFromFatSecret fetches the detail of the first result, stores
\* the normalized record under the key of the lower-cased, trimmed label for
\* 24 hours and returns it; a later call within 24 hours with a label of the
\* same normalized form returns that record without any request.
C6_NutritionCachedByLabel ==
  /\ [](\A p \in Procs : C6_StoresFirstResult(p))
  /\ [][\A p \in Procs : C6_ServesStoredRecord(p)]_vars

\* In the last millisecond of the 24 hours, a call with the label "a " was
\* served the record stored earlier, with no request.
C6_ServedAtEndOfDay ==
  \E p \in Procs :
    /\ Ended(p, "getNutritionFromFatSecret")
    /\ Args(p).foodLabel = Str(<<"a", " ">>)
    /\ NutritionEntryKey(Args(p).foodLabel) \in DOMAIN cache
    /\ now = cache[NutritionEntryKey(Args(p).foodLabel)].storedAt + DayMs - 1
    /\ Result(p) = Ret(cache[NutritionEntryKey(Args(p).foodLabel)].v)
    /\ procs[p].reqs = <<>>

\* key is a key of the nutrition records.
IsNutritionKey(key) ==
  /\ Len(key) >= 20
  /\ SubSeq(key, 1, 20) = FATSECRET_ \o <<"n", "u", "t", "r", "i", "t", "i", "o", "n", "_">>

\* Without a label the call returns null and touches neither the cache nor
\* the network.
C7_NoLabelNoEffect(p) ==
  (Ended(p, "getNutritionFromFatSecret") /\ ~Truthy(Args(p).foodLabel)) =>
    /\ Result(p) = Ret(Null)
    /\ procs[p].reads = {}
    /\ procs[p].writes = {}
    /\ procs[p].reqs = <<>>

\* Resumed with an empty list of results, the call ends with null: no detail
\* is fetched and the label's key is not written.
C7_EmptySearchNoEffect(p) ==
  (/\ Returned(p, "getNutritionFromFatSecret", "search")
   /\ Len(procs[p].stack) = 2
   /\ Outcome(p) = Ret(EmptyList)
   /\ procs'[p] # procs[p]) =>
    /\ Ended(p, "getNutritionFromFatSecret")'
    /\ Result(p)' = Ret(Null)
    /\ procs'[p].reqs = procs[p].reqs
    /\ "getFoodDetails" \notin procs'[p].fns
    /\ NutritionEntryKey(Args(p).foodLabel) \notin procs'[p].writes
    /\ cache' = cache

\* C7: getNutritionFromFatSecret never caches a null: without a label it
\* returns null with no cache read, no cache write and no request; when the
\* search returns the empty list it returns null, fetches no detail and does
\* not write the label's key; no nutrition entry of the cache is ever null.
C7_NeverCachesNull ==
  /\ [](/\ \A p \in Procs : C7_NoLabelNoEffect(p)
        /\ \A key \in DOMAIN cache :
             IsNutritionKey(key) => (cache[key].v # Null /\ Truthy(cache[key].v)))
  /\ [][\A p \in Procs : C7_EmptySearchNoEffect(p)]_vars

\* The search endpoint answered success with no food, and the call returned
\* null leaving no entry under the label's key.
C7_NullAfterEmptySearch ==
  \E p \in Procs :
    /\ Ended(p, "getNutritionFromFatSecret")
    /\ Answered(p)
    /\ LastRequest(p).method = "foods.search"
    /\ LastResponse(p).ok
    /\ Result(p) = Ret(Null)
    /\ procs[p].errors = {}
    /\ NutritionEntryKey(Args(p).foodLabel) \notin DOMAIN cache

\* The two clients whose answers come in an envelope: the method each calls
\* and the repeated field of its envelope.
Enveloped ==
  [searchFoods |-> [method |-> "foods.search", outer |-> "foods", inner |-> "food"],
   autocompleteSearch |-> [method |-> "foods.autocomplete.v2", outer |-> "suggestions",
                           inner |-> "suggestion"]]

\* C8: searchFoods and autocompleteSearch, given a success response on a
\* miss, return [] when the repeated field is absent, [object] when it is a
\* single object and the list itself when it is a list; what they return is
\* always a list.
C8_EnvelopeNormalized ==
  \A p \in Procs : \A fn \in DOMAIN Enveloped :
    Ended(p, fn) =>
      /\ Result(p).k = "return"
      /\ IsArray(Result(p).v)
      /\ (Answered(p) /\ LastRequest(p).method = Enveloped[fn].method /\ LastResponse(p).ok) =>
           LET field == Get(Get(LastResponse(p).json, Enveloped[fn].outer),
                            Enveloped[fn].inner)
           IN  Result(p).v = IF field = Undef THEN Arr(<<>>)
                             ELSE IF IsArray(field) THEN field
                             ELSE Arr(<<field>>)

\* The autocomplete endpoint answered with a single suggestion and the
\* client returned the list of that one suggestion.
C8_SingleSuggestionWrapped ==
  \E p \in Procs :
    /\ Ended(p, "autocompleteSearch")
    /\ Answered(p)
    /\ LastRequest(p).method = "foods.autocomplete.v2"
    /\ LastResponse(p).ok
    /\ IsString(Get(Get(LastResponse(p).json, "suggestions"), "suggestion"))
    /\ Result(p) = Ret(Arr(<<Get(Get(LastResponse(p).json, "suggestions"), "suggestion")>>))

\* The search endpoint answered with a single food and the client returned
\* the list of that one food.
C8_SingleFoodWrapped ==
  \E p \in Procs :
    /\ Ended(p, "searchFoods")
    /\ Answered(p)
    /\ LastRequest(p).method = "foods.search"
    /\ LastResponse(p).ok
    /\ Result(p) = Ret(Arr(<<FoodSummary(Str(<<"1">>))>>))

SearchEntryKey(query) ==
  FATSECRET_ \o <<"s", "e", "a", "r", "c", "h", "_">> \o Normalized(query)

\* The list a search obtained from the endpoint is stored under the key of
\* the lower-cased, trimmed query, for 24 hours.
C9_StoresUnderNormalizedQuery(p) ==
  (/\ Ended(p, "searchFoods")
   /\ Answered(p)
   /\ LastRequest(p).method = "foods.search"
   /\ LastResponse(p).ok
   /\ Get(Get(LastResponse(p).json, "foods"), "food") # Undef) =>
    /\ SearchEntryKey(Args(p).query) \in DOMAIN cache
    /\ cache[SearchEntryKey(Args(p).query)] =
         [v |-> Result(p).v, storedAt |-> now, expiresAt |-> now + DayMs]

\* A search whose query has the normalized form of a list stored less than
\* 24 hours ago returns that list and issues no request.
C9_ServesStoredList(p) ==
  (/\ Begins(p, "searchFoods")
   /\ IsString(Args(p)'.query)
   /\ SearchEntryKey(Args(p)'.query) \in DOMAIN cache
   /\ now < cache[SearchEntryKey(Args(p)'.query)].storedAt + DayMs) =>
    /\ Ended(p, "searchFoods")'
    /\ Result(p)' = Ret(cache[SearchEntryKey(Args(p)'.query)].v)
    /\ procs'[p].reqs = <<>>
    /\ cache' = cache

\* C9: the key of searchFoods ignores case and surrounding whitespace: once
\* searchFoods(q1) stored a list, searchFoods(q2) with the same lower-cased,
\* trimmed form returns that list within 24 hours and issues no request.
C9_SearchKeyInsensitive ==
  /\ [](\A p \in Procs : C9_StoresUnderNormalizedQuery(p))
  /\ [][\A p \in Procs : C9_ServesStoredList(p)]_vars

\* A search typed "a " was served, with no request, the non-empty list stored
\* earlier under the key of "a".
C9_OtherSpellingServed ==
  \E p \in Procs :
    /\ Ended(p, "searchFoods")
    /\ Args(p).query = Str(<<"a", " ">>)
    /\ procs[p].reqs = <<>>
    /\ SearchEntryKey(Args(p).query) \in DOMAIN cache
    /\ cache[SearchEntryKey(Args(p).query)].storedAt < now
    /\ Result(p) = Ret(cache[SearchEntryKey(Args(p).query)].v)
    /\ Len(Result(p).v.xs) > 0

\* C10: for an expression that is absent or shorter than 2 once trimmed,
\* autocompleteSearch returns [] with no cache lookup, no cache write, no
\* token acquisition and no request.
C10_AutocompleteGuard ==
  \A p \in Procs :
    (/\ Ended(p, "autocompleteSearch")
     /\ \/ Args(p).expression \in {Undef, Null}
        \/ IsString(Args(p).expression) /\ Len(trim(Args(p).expression.s)) < 2) =>
      /\ Result(p) = Ret(Arr(<<>>))
      /\ procs[p].reads = {}
      /\ procs[p].writes = {}
      /\ procs[p].reqs = <<>>
      /\ procs[p].fns = {"autocompleteSearch"}

\* The expression " a ", one letter between blanks, was answered [] while
\* the cache holds the suggestions of an earlier call, none of them read.
C10_BlankPaddedLetterRefused ==
  \E p \in Procs :
    /\ Ended(p, "autocompleteSearch")
    /\ Args(p).expression = Str(<<" ", "a", " ">>)
    /\ Result(p) = Ret(Arr(<<>>))
    /\ procs[p].reads = {}
    /\ \E key \in DOMAIN cache : key # TOKEN_CACHE_KEY

\* C11: the max_results autocompleteSearch sends is min(maxResults, 10),
\* written in decimal, and so never a number above 10.
C11_MaxResultsClamped ==
  \A p \in Procs :
    (~IsIdle(p) /\ procs[p].stack[1].fn = "autocompleteSearch") =>
      \A i \in DOMAIN procs[p].reqs :
        procs[p].reqs[i].method = "foods.autocomplete.v2" =>
          LET m == Args(p).maxResults.int
              sent == procs[p].reqs[i].max_results
          IN  /\ sent = ToStr(Num(IF m < 10 THEN m ELSE 10))
              /\ \E k \in -1 .. 10 : sent = ToStr(Num(k))

\* autocompleteSearch("ab", 50) sent max_results "10".
C11_FiftySentAsTen ==
  \E p \in Procs :
    /\ ~IsIdle(p)
    /\ procs[p].stack[1].fn = "autocompleteSearch"
    /\ Args(p).maxResults = Num(50)
    /\ Len(procs[p].reqs) > 0
    /\ LastRequest(p).method = "foods.autocomplete.v2"
    /\ LastRequest(p).max_results = <<"1", "0">>

\* The outermost call of p is a call of fn, ended or not.
Calling(p, fn) == ~IsIdle(p) /\ procs[p].stack[1].fn = fn

\* What a call of autocompleteSearch asks for: the lower-cased, trimmed
\* expression, the result limit and the region (null when none is given).
Triple(p) == <<Normalized(Args(p).expression), Args(p).maxResults, Args(p).region>>

\* The cache keys a call has read or written.
Touched(p) == procs[p].reads \cup procs[p].writes

\* C12: two calls of autocompleteSearch whose (expression, maxResults,
\* region) differ never read or write the same cache entry, an absent region
\* being distinct from every region given.
C12_DistinctTriplesDistinctEntries ==
  \A p, q \in Procs :
    (/\ Calling(p, "autocompleteSearch")
     /\ Calling(q, "autocompleteSearch")
     /\ Triple(p) # Triple(q)) =>
      (Touched(p) \cap Touched(q)) \subseteq {TOKEN_CACHE_KEY}

\* A call with the region "default" was served, with no request, the
\* suggestions another call obtained and stored with no region.
C12_ServedOtherRegion ==
  \E p, q \in Procs :
    /\ Ended(p, "autocompleteSearch")
    /\ Ended(q, "autocompleteSearch")
    /\ Args(p).region = Str(<<"d", "e", "f", "a", "u", "l", "t">>)
    /\ Args(q).region = Null
    /\ procs[p].reqs = <<>>
    /\ Len(Result(p).v.xs) > 0
    /\ \E key \in procs[q].writes : key \in procs[p].reads /\ Result(p) = Ret(cache[key].v)

C13_NoSuccessAfterTokenFailure ==
  \E p \in Procs :
    /\ Ended(p, "searchFatSecretNutrition")
    /\ IsString(Get(Payload(p), "foodName"))
    /\ \E e \in procs[p].errors : e[1] = "getAccessToken"
    /\ Get(Result(p).v, "success") = Bool(FALSE)

\* The payload handed to standardizeNutritionData and the serving the record
\* is to be taken from: the first of a list, else the sole serving.
Payload_Normalizer(p) == Args(p).fatSecretFood

Entry(food) == Get(Get(food, "servings"), "serving")

Selected(food) ==
  IF Entry(food).t = "array"
  THEN (IF Len(Entry(food).xs) > 0 THEN Entry(food).xs[1] ELSE Undef)
  ELSE Entry(food)

\* The canonical record with every field at its default, named name.
Canonical(name) ==
  Obj([calories |-> Num(0), protein |-> Num(0), fat |-> Num(0), carbohydrates |-> Num(0),
       foodName |-> name, source |-> Str(<<"F", "a", "t", "S", "e", "c", "r", "e", "t">>),
       servingSize |-> Str(<<"1", "0", "0", "g">>), microNutrients |-> Obj(<<>>)])

\* C14: standardizeNutritionData never raises; its four quantities are
\* numbers whatever the serving holds, and a payload that is null or
\* undefined, has no servings or has an empty list of servings gives the
\* record of defaults (named by food_name when there is one, else
\* "Unknown Food").
C14_NormalizerNeverRaises ==
  \A p \in Procs :
    Ended(p, "standardizeNutritionData") =>
      LET food == Payload_Normalizer(p)
          name == IF Get(food, "food_name") = Undef
                  THEN Str(<<"U", "n", "k", "n", "o", "w", "n", " ", "F", "o", "o", "d">>)
                  ELSE Get(food, "food_name")
      IN  /\ Result(p).k = "return"
          /\ \A f \in {"calories", "protein", "fat", "carbohydrates"} :
               Get(Result(p).v, f).t = "number"
          /\ Selected(food) \in {Undef, Null} => Result(p).v = Canonical(name)

\* standardizeNutritionData, handed undefined, has raised.
C14_RaisedOnUndefined ==
  \E p \in Procs :
    /\ Ended(p, "standardizeNutritionData")
    /\ Payload_Normalizer(p) = Undef
    /\ Result(p).k = "throw"

\* Handed a payload that can be read, it returns, with numbers for the four
\* quantities, and the record of defaults when no serving can be selected.
C14_DefaultsWhenReadable ==
  \A p \in Procs :
    (Ended(p, "standardizeNutritionData") /\ Payload_Normalizer(p) \notin {Undef, Null}) =>
      /\ Result(p).k = "return"
      /\ \A f \in {"calories", "protein", "fat", "carbohydrates"} :
           Get(Result(p).v, f).t = "number"
      /\ Selected(Payload_Normalizer(p)) \in {Undef, Null} =>
           Result(p).v = Canonical(OrElse(Get(Payload_Normalizer(p), "food_name"),
                                          Str(<<"U", "n", "k", "n", "o", "w", "n", " ",
                                                "F", "o", "o", "d">>)))

\* A fiber field that is no number has been stored as NaN.
C14_NaNMicronutrient ==
  \E p \in Procs :
    /\ Ended(p, "standardizeNutritionData")
    /\ Result(p).k = "return"
    /\ Get(Get(Result(p).v, "microNutrients"), "fiber") = NaN

\* The output key of each micronutrient field of a serving.
MicroKey ==
  [fiber |-> "fiber", sugar |-> "sugar", sodium |-> "sodium", potassium |-> "potassium",
   cholesterol |-> "cholesterol", saturated_fat |-> "saturatedFat"]

Has(v, name) == v.t = "object" /\ name \in DOMAIN v.f

\* C15: the microNutrients map standardizeNutritionData returns has the key
\* of a micronutrient field exactly when the selected serving has the field,
\* and has no other key.
C15_MicronutrientsWhenPresent ==
  \A p \in Procs :
    (Ended(p, "standardizeNutritionData") /\ Result(p).k = "return") =>
      LET serving == Selected(Payload_Normalizer(p))
          map == Get(Result(p).v, "microNutrients")
      IN  /\ \A x \in DOMAIN MicroKey : Has(serving, x) <=> Has(map, MicroKey[x])
          /\ DOMAIN map.f \subseteq {MicroKey[x] : x \in DOMAIN MicroKey}

\* The key is there exactly when the field is there and truthy.
C15_MicronutrientsWhenTruthy ==
  \A p \in Procs :
    (Ended(p, "standardizeNutritionData") /\ Result(p).k = "return") =>
      LET serving == Selected(Payload_Normalizer(p))
          map == Get(Result(p).v, "microNutrients")
      IN  /\ \A x \in DOMAIN MicroKey :
               Truthy(Get(serving, x)) <=> Has(map, MicroKey[x])
          /\ DOMAIN map.f \subseteq {MicroKey[x] : x \in DOMAIN MicroKey}

\* A serving with a fiber of 0 has given a map without fiber.
C15_ZeroFiberDropped ==
  \E p \in Procs :
    /\ Ended(p, "standardizeNutritionData")
    /\ Result(p).k = "return"
    /\ Get(Selected(Payload_Normalizer(p)), "fiber") = Num(0)
    /\ ~Has(Get(Result(p).v, "microNutrients"), "fiber")

\* All six keys are in the map of a serving with all six fields.
C15_AllSixIncluded ==
  \E p \in Procs :
    /\ Ended(p, "standardizeNutritionData")
    /\ Result(p).k = "return"
    /\ \A x \in DOMAIN MicroKey : Has(Selected(Payload_Normalizer(p)), x)
    /\ DOMAIN Get(Result(p).v, "microNutrients").f = {MicroKey[x] : x \in DOMAIN MicroKey}

\* C16: getAccessToken called while the client id or the client secret is
\* unset throws the configuration error and sends nothing to the token
\* endpoint; when the token endpoint answers with a non-success status it
\* throws the upstream error and stores no token.
C16_TokenFailures ==
  \A p \in Procs :
    /\ (~env.clientId \/ ~env.clientSecret) => procs[p].reqs = <<>>
    /\ Ended(p, "getAccessToken") =>
         /\ (~env.clientId \/ ~env.clientSecret) =>
              /\ Result(p).k = "throw"
              /\ Result(p).v.msg = "FatSecret API credentials not configured"
         /\ (Answered(p) /\ LastResponse(p).kind = "http" /\ ~LastResponse(p).ok) =>
              /\ Result(p).k = "throw"
              /\ Result(p).v.msg = "Failed to get FatSecret token"
              /\ procs[p].writes = {}

\* getAccessToken has failed without the client secret, nothing sent.
C16_FailedUnconfigured ==
  \E p \in Procs :
    /\ Ended(p, "getAccessToken")
    /\ env.clientId /\ ~env.clientSecret
    /\ Result(p).k = "throw"
    /\ procs[p].reqs = <<>>

\* getAccessToken has failed on a non-success answer, nothing stored.
C16_FailedOnStatus ==
  \E p \in Procs :
    /\ Ended(p, "getAccessToken")
    /\ Answered(p)
    /\ ~LastResponse(p).ok
    /\ Result(p).k = "throw"
    /\ Result(p).v.msg = "Failed to get FatSecret token"
    /\ TOKEN_CACHE_KEY \notin DOMAIN cache

\* The request each operation sends for its own key, and what it returns and
\* stores for a success answer with the body json.
OwnMethod ==
  [getAccessToken |-> "client_credentials", searchFoods |-> "foods.search",
   getFoodDetails |-> "food.get.v2", autocompleteSearch |-> "foods.autocomplete.v2"]

AsList(field) ==
  IF field = Undef THEN Arr(<<>>) ELSE IF field.t = "array" THEN field ELSE Arr(<<field>>)

OwnResult(fn, json) ==
  CASE fn = "getAccessToken" -> Get(json, "access_token")
    [] fn = "searchFoods" -> AsList(Get(Get(json, "foods"), "food"))
    [] fn = "getFoodDetails" -> Get(json, "food")
    [] fn = "autocompleteSearch" -> AsList(Get(Get(json, "suggestions"), "suggestion"))

\* The call of p is one of fn that missed, sent its request and got a
\* success answer.
Fetched(p, fn) ==
  /\ Ended(p, fn)
  /\ Answered(p)
  /\ LastRequest(p).method = OwnMethod[fn]
  /\ LastResponse(p).ok

\* The keys p has written for the operation fn itself.
OwnWrites(p, fn) ==
  IF fn = "getAccessToken" THEN procs[p].writes ELSE procs[p].writes \ {TOKEN_CACHE_KEY}

\* What an entry written by fn holds of the answer: the token of a grant,
\* else the value itself.
Held(fn, v) == IF fn = "getAccessToken" THEN Get(v, "access_token") ELSE v

\* C17: calls of the same operation for the same key are not merged: each
\* call that sent its request returns the result of the answer to its own
\* request, and when two such calls have both written the key, the entry
\* holds the value of one of the two answers.
C17_NoSingleFlight ==
  \A fn \in DOMAIN OwnMethod : \A p \in Procs :
    /\ Fetched(p, fn) => Result(p) = Ret(OwnResult(fn, LastResponse(p).json))
    /\ \A q \in Procs \ {p} :
         (Fetched(p, fn) /\ Fetched(q, fn)) =>
           \A k \in OwnWrites(p, fn) \cap OwnWrites(q, fn) :
             /\ k \in DOMAIN cache
             /\ Held(fn, cache[k].v) \in {OwnResult(fn, LastResponse(p).json),
                                          OwnResult(fn, LastResponse(q).json)}

\* Two calls of searchFoods for the same key have both sent the search
\* request, got different lists, returned each its own, and the entry holds
\* one of the two.
C17_BothSearched ==
  \E p, q \in Procs :
    /\ Fetched(p, "searchFoods") /\ Fetched(q, "searchFoods")
    /\ Args(p).query = Args(q).query
    /\ Result(p) # Result(q)
    /\ OwnWrites(p, "searchFoods") \cap OwnWrites(q, "searchFoods") # {}
    /\ \E k \in OwnWrites(p, "searchFoods") : Ret(cache[k].v) = Result(q)

\* Two calls of getAccessToken have both asked for a grant before either
\* got one.
C17_BothAskedForToken ==
  \E p, q \in Procs :
    /\ p # q
    /\ Calling(p, "getAccessToken") /\ At(p, "getAccessToken", "fetch")
    /\ Calling(q, "getAccessToken") /\ At(q, "getAccessToken", "fetch")

\* Likewise two calls of getFoodDetails and two of autocompleteSearch.
C17_BothAskedForDetails ==
  \E p, q \in Procs :
    /\ p # q
    /\ At(p, "getFoodDetails", "fetch") /\ At(q, "getFoodDetails", "fetch")
    /\ LastRequest(p) = LastRequest(q)

C17_BothAskedForSuggestions ==
  \E p, q \in Procs :
    /\ p # q
    /\ At(p, "autocompleteSearch", "fetch") /\ At(q, "autocompleteSearch", "fetch")
    /\ LastRequest(p).expression = LastRequest(q).expression

\* The call of p, one of fn, ended through the catch block of fn.
Caught(p, fn) == Ended(p, fn) /\ \E e \in procs[p].errors : e[1] = fn

\* The call of p, one of searchFoods or autocompleteSearch, ended on a
\* success answer without the repeated field.
FieldAbsent(p, fn) ==
  /\ fn \in DOMAIN Enveloped
  /\ Fetched(p, fn)
  /\ Get(Get(LastResponse(p).json, Enveloped[fn].outer), Enveloped[fn].inner) = Undef

\* C18: a call of searchFoods, getFoodDetails or autocompleteSearch that
\* ended through its catch block, or found the repeated field absent, has
\* written no entry but (at most) the token, and every entry it looked up is
\* still a miss, so the next call for the key goes to the service again; and a
\* call in which getAccessToken failed has stored no token and leaves none
\* to serve.
C18_FailuresNotCached ==
  \A p \in Procs :
    /\ \A fn \in {"searchFoods", "getFoodDetails", "autocompleteSearch"} :
         (Caught(p, fn) \/ FieldAbsent(p, fn)) =>
           /\ procs[p].writes \subseteq {TOKEN_CACHE_KEY}
           /\ \A k \in procs[p].reads \ {TOKEN_CACHE_KEY} :
                ~Truthy(getCachedResponse(cache, k))
    /\ (\E e \in procs[p].errors : e[1] = "getAccessToken") =>
         /\ TOKEN_CACHE_KEY \notin procs[p].writes
         /\ ~TokenUsable(getCachedResponse(cache, TOKEN_CACHE_KEY))

\* searchFoods got a token and then a success answer without foods: it has
\* looked its key up, stored nothing under it, and the key is still a miss.
C18_NothingStoredForAbsentField ==
  \E p \in Procs :
    /\ FieldAbsent(p, "searchFoods")
    /\ procs[p].reads \ {TOKEN_CACHE_KEY} # {}
    /\ procs[p].writes = {TOKEN_CACHE_KEY}
    /\ \A k \in procs[p].reads \ {TOKEN_CACHE_KEY} : k \notin DOMAIN cache

\* getFoodDetails ended through its catch block after a failed answer.
C18_NothingStoredForFailedLookup ==
  \E p \in Procs :
    /\ Caught(p, "getFoodDetails")
    /\ Answered(p)
    /\ LastRequest(p).method = "food.get.v2"
    /\ procs[p].reads \ {TOKEN_CACHE_KEY} # {}
    /\ \A k \in procs[p].reads \ {TOKEN_CACHE_KEY} : k \notin DOMAIN cache

\* The keys of each operation: the token's one key, and for the others every
\* key that starts as shown.
KeyFamily ==
  [getAccessToken |-> <<"f", "a", "t", "s", "e", "c", "r", "e", "t", "_", "t", "o", "k", "e", "n">>,
   searchFoods |-> <<"f", "a", "t", "s", "e", "c", "r", "e", "t", "_", "s", "e", "a", "r", "c", "h", "_">>,
   getFoodDetails |-> <<"f", "a", "t", "s", "e", "c", "r", "e", "t", "_", "f", "o", "o", "d", "_">>,
   getNutritionFromFatSecret |-> <<"f", "a", "t", "s", "e", "c", "r", "e", "t", "_", "n", "u", "t", "r", "i", "t", "i", "o", "n", "_">>,
   autocompleteSearch |-> <<"f", "a", "t", "s", "e", "c", "r", "e", "t", "_", "a", "u", "t", "o", "c", "o", "m", "p", "l", "e", "t", "e", "_">>]

HasPrefix(key, prefix) ==
  Len(key) >= Len(prefix) /\ SubSeq(key, 1, Len(prefix)) = prefix

InFamily(key, fn) ==
  IF fn = "getAccessToken" THEN key = KeyFamily[fn] ELSE HasPrefix(key, KeyFamily[fn])

\* What each operation stores: a token with its expiry, a list of foods, a
\* detail payload (or nothing, when the answer had no food), a canonical
\* record, a list of suggestions.
Stores(fn, v) ==
  CASE fn = "getAccessToken" -> Has(v, "access_token") /\ Has(v, "expires_at")
    [] fn = "searchFoods" ->
         v.t = "array" /\ \A i \in DOMAIN v.xs : Has(v.xs[i], "food_id")
    [] fn = "getFoodDetails" -> v = Undef \/ Has(v, "servings")
    [] fn = "getNutritionFromFatSecret" -> Has(v, "calories") /\ Has(v, "microNutrients")
    [] fn = "autocompleteSearch" ->
         v.t = "array" /\ Len(v.xs) > 0 /\ \A i \in DOMAIN v.xs : v.xs[i].t = "string"

\* What each operation returns when it returns something: the token itself
\* for getAccessToken, else what it stores.
Returns(fn, v) ==
  IF fn = "getAccessToken" THEN v.t = "string" ELSE Stores(fn, v)

\* The operations a call of fn may run, itself included.
Runs ==
  [getAccessToken |-> {"getAccessToken"},
   searchFoods |-> {"searchFoods", "getAccessToken"},
   getFoodDetails |-> {"getFoodDetails", "getAccessToken"},
   getNutritionFromFatSecret |-> {"getNutritionFromFatSecret", "searchFoods",
                                  "getFoodDetails", "getAccessToken"},
   autocompleteSearch |-> {"autocompleteSearch", "getAccessToken"}]

\* The call of p, one of fn, ended without a request and without a failure,
\* after looking its own entry up and finding it: it was served from the
\* cache.
Served(p, fn) ==
  /\ Ended(p, fn)
  /\ procs[p].reqs = <<>>
  /\ procs[p].errors = {}
  /\ \E k \in procs[p].reads : InFamily(k, fn) /\ Truthy(getCachedResponse(cache, k))

\* C19: the five key families are disjoint whatever the inputs (none of the
\* five beginnings is the beginning of another); every entry lies in one
\* family and holds what the operation of that family stores; a call reads
\* and writes only keys of the operations it runs; and a call served from
\* the cache returns a value of its own operation.
C19_FamiliesDisjoint ==
  /\ \A f, g \in DOMAIN KeyFamily : f # g => ~HasPrefix(KeyFamily[f], KeyFamily[g])
  /\ \A k \in DOMAIN cache :
       /\ \E f \in DOMAIN KeyFamily : InFamily(k, f)
       /\ \A f \in DOMAIN KeyFamily : InFamily(k, f) => Stores(f, cache[k].v)
  /\ \A p \in Procs : \A fn \in DOMAIN KeyFamily :
       /\ Calling(p, fn) =>
            \A k \in Touched(p) : \E f \in Runs[fn] : InFamily(k, f)
       /\ Served(p, fn) =>
            /\ Result(p).k = "return"
            /\ Returns(fn, Result(p).v)

\* Entries of all five families are stored at once.
C19_FiveFamiliesStored ==
  \A f \in DOMAIN KeyFamily : \E k \in DOMAIN cache : InFamily(k, f)

\* searchFoods was served its list while a token, a detail and a record
\* were stored beside it.
C19_ServedAmongOthers ==
  \E p \in Procs :
    /\ Served(p, "searchFoods")
    /\ Len(Result(p).v.xs) > 0
    /\ \A f \in {"getAccessToken", "getFoodDetails", "getNutritionFromFatSecret"} :
         \E k \in DOMAIN cache : InFamily(k, f)

\* A call of searchFoods writes, besides the token, only the key of its
\* lower-cased, trimmed query, whatever its maxResults.
C20_KeyWithoutLimit(p) ==
  Ended(p, "searchFoods") =>
    \A k \in procs[p].writes \ {TOKEN_CACHE_KEY} : k = SearchEntryKey(Args(p).query)

\* A call of searchFoods made while a list is stored, less than 24 hours
\* old, under the key of its lower-cased, trimmed query ends at once with
\* exactly that list, whatever its maxResults, and sends nothing: the list is
\* as long as the one stored.
C20_ServedWhateverTheLimit(p) ==
  \A m \in {Num(1), Num(3)} :
    (/\ Begins(p, "searchFoods")
     /\ Args(p)'.maxResults = m
     /\ IsString(Args(p)'.query)
     /\ SearchEntryKey(Args(p)'.query) \in DOMAIN cache
     /\ now < cache[SearchEntryKey(Args(p)'.query)].storedAt + DayMs) =>
      LET stored == cache[SearchEntryKey(Args(p)'.query)].v
      IN  /\ Ended(p, "searchFoods")'
          /\ Result(p)'.k = "return"
          /\ Result(p)'.v = stored
          /\ Len(Result(p)'.v.xs) = Len(stored.xs)
          /\ procs'[p].reqs = <<>>

====
